---- MODULE Spec2Model ----
(***************************************************************************)
(* SinePatre / YFN resource navigator (api/navigate.js and its revisions). *)
(* A model of the serverless handler: safety gate, catalog loader with the *)
(* process-wide TTL cache, tokenizer, relevance scorer and candidate       *)
(* selector.  Text is modelled character by character on TLA+ strings.     *)
(***************************************************************************)
EXTENDS Integers, Sequences, FiniteSets, TLC

(***************************************************************************)
(* Characters and strings                                                  *)
(***************************************************************************)
Ch(s, i) == SubSeq(s, i, i)

UpperAlpha == "ABCDEFGHIJKLMNOPQRSTUVWXYZ"
LowerAlpha == "abcdefghijklmnopqrstuvwxyz"
Digits == "0123456789"

CharsOf(s) == { Ch(s, i) : i \in 1..Len(s) }

\* \w of a JavaScript regular expression: [A-Za-z0-9_]
WordChars == CharsOf(UpperAlpha) \cup CharsOf(LowerAlpha) \cup CharsOf(Digits) \cup {"_"}

\* \s of a JavaScript regular expression (the ASCII part), also what trim() strips
SpaceChars == {" ", "\t", "\n", "\r", "\f"}

toLowerCaseChar(c) ==
  IF c \in CharsOf(UpperAlpha)
    THEN Ch(LowerAlpha, CHOOSE i \in 1..26 : Ch(UpperAlpha, i) = c)
    ELSE c

\* the concatenation of parts[lo..hi], halved so that the evaluation stays shallow
RECURSIVE concatRange(_, _, _)
concatRange(parts, lo, hi) ==
  IF lo > hi THEN ""
  ELSE IF lo = hi THEN parts[lo]
  ELSE LET mid == (lo + hi) \div 2
       IN concatRange(parts, lo, mid) \o concatRange(parts, mid + 1, hi)

\* String.prototype.toLowerCase
toLowerCase(s) == concatRange([i \in 1..Len(s) |-> toLowerCaseChar(Ch(s, i))], 1, Len(s))

\* String.prototype.trim
trim(s) ==
  LET n == Len(s)
      blank(i) == Ch(s, i) \in SpaceChars
  IN IF \A i \in 1..n : blank(i) THEN ""
     ELSE LET first == CHOOSE i \in 1..n : ~blank(i) /\ \A j \in 1..(i - 1) : blank(j)
              back == CHOOSE k \in 1..n : ~blank(n + 1 - k) /\ \A j \in 1..(k - 1) : blank(n + 1 - j)
          IN SubSeq(s, first, n + 1 - back)

\* String.prototype.includes
includes(s, sub) ==
  \E i \in 1..(Len(s) - Len(sub) + 1) : SubSeq(s, i, i + Len(sub) - 1) = sub

\* .replace(/[^\w\s]/g, " ")
replacePunct(s) ==
  concatRange([i \in 1..Len(s) |->
                 IF Ch(s, i) \in WordChars \cup SpaceChars THEN Ch(s, i) ELSE " "], 1, Len(s))

\* .replace(/\s+/g, rep): every maximal run of whitespace becomes rep
replaceSpaceRuns(s, rep) ==
  concatRange([i \in 1..Len(s) |->
                 IF Ch(s, i) \notin SpaceChars THEN Ch(s, i)
                 ELSE IF i > 1 /\ Ch(s, i - 1) \in SpaceChars THEN "" ELSE rep], 1, Len(s))

\* Array.prototype.join
join(parts, sep) ==
  concatRange([k \in 1..Len(parts) |-> IF k = 1 THEN parts[k] ELSE sep \o parts[k]],
              1, Len(parts))

\* String.prototype.split(" "): the pieces between the spaces; "" splits to <<"">>
split(s) ==
  LET spaces == { i \in 1..Len(s) : Ch(s, i) = " " }
      \* the position of the k-th space; 0 before the first piece, Len(s)+1 after the last
      cut(k) == IF k = 0 THEN 0
                ELSE IF k > Cardinality(spaces) THEN Len(s) + 1
                ELSE CHOOSE i \in spaces : Cardinality({ j \in spaces : j <= i }) = k
  IN [k \in 1..(Cardinality(spaces) + 1) |-> SubSeq(s, cut(k - 1) + 1, cut(k) - 1)]

normalize(text) == trim(replaceSpaceRuns(replacePunct(toLowerCase(text)), " "))

(***************************************************************************)
(* Revisions of the handler that the model covers                          *)
(*   p001  : src/unnamed/part_001, lines 1-424                             *)
(*   p003  : src/unnamed/part_003                                          *)
(*   p005b : src/unnamed/part_005, lines 547-730 (paraphrasing revision)   *)
(*   p006  : src/unnamed/part_006 (threshold revision)                     *)
(*   nav1  : src/api/navigate.js, lines 1-501                              *)
(***************************************************************************)
Revs == {"p001", "p003", "p005b", "p006", "nav1"}

MAX_MESSAGE_LENGTH(rv) ==
  CASE rv = "p001" -> 1200
    [] rv = "p003" -> 1500
    [] rv = "p006" -> 1500
    [] rv = "nav1" -> 2000
    [] OTHER -> 1500

(***************************************************************************)
(* Safety gate: SAFETY_REGEX and triggeredSafety                           *)
(* A pattern is \b(alt|alt|...)\b with flag i; an alternative is a         *)
(* sequence of atoms: a literal, or an optional single character.          *)
(***************************************************************************)
Lit(str) == [kind |-> "lit", s |-> str, cs |-> {}]
\* [- ]?
Opt(chars) == [kind |-> "opt", s |-> "", cs |-> chars]
\* .? : any one character but a line terminator, or nothing
OptAny == [kind |-> "any", s |-> "", cs |-> {}]

SAFETY_REGEX ==
  << { <<Lit("suicide")>>, <<Lit("kill myself")>>, <<Lit("end my life")>>, <<Lit("end it all")>> },
     { <<Lit("self"), Opt({"-", " "}), Lit("harm")>>, <<Lit("cut myself")>>, <<Lit("cutting")>>,
       <<Lit("self"), OptAny, Lit("injur")>> },
     { <<Lit("i am not safe")>>, <<Lit("i'm not safe")>>, <<Lit("unsafe at home")>>, <<Lit("in danger")>> },
     { <<Lit("abuse")>>, <<Lit("sexual assault")>>, <<Lit("rape")>>, <<Lit("molested")>>, <<Lit("violence")>> },
     { <<Lit("overdose")>>, <<Lit("poison")>>, <<Lit("hang")>> } >>

\* the positions just after a match of atoms in s that starts at position i
RECURSIVE MatchEnds(_, _, _)
MatchEnds(atoms, s, i) ==
  IF atoms = <<>> THEN {i}
  ELSE LET a == Head(atoms) IN
    CASE a.kind = "lit" ->
           IF i + Len(a.s) - 1 <= Len(s) /\ SubSeq(s, i, i + Len(a.s) - 1) = a.s
             THEN MatchEnds(Tail(atoms), s, i + Len(a.s))
             ELSE {}
      [] a.kind = "opt" ->
           MatchEnds(Tail(atoms), s, i)
             \cup (IF i <= Len(s) /\ Ch(s, i) \in a.cs THEN MatchEnds(Tail(atoms), s, i + 1) ELSE {})
      [] OTHER ->
           MatchEnds(Tail(atoms), s, i)
             \cup (IF i <= Len(s) /\ Ch(s, i) \notin {"\n", "\r"}
                     THEN MatchEnds(Tail(atoms), s, i + 1) ELSE {})

IsWordAt(s, k) == k \in 1..Len(s) /\ Ch(s, k) \in WordChars

\* \b between positions k-1 and k
WordBoundary(s, k) == IsWordAt(s, k - 1) # IsWordAt(s, k)

\* rx.test(message) for rx = /\b(alts)\b/i
RegexTest(alts, message) ==
  LET s == toLowerCase(message) IN
  \E i \in 1..(Len(s) + 1) : \E alt \in alts : \E e \in MatchEnds(alt, s, i) :
     WordBoundary(s, i) /\ WordBoundary(s, e)

triggeredSafety(message) ==
  \E k \in 1..Len(SAFETY_REGEX) : RegexTest(SAFETY_REGEX[k], message)

(***************************************************************************)
(* Tokenizer                                                               *)
(***************************************************************************)
StopCommon ==
  {"the","and","or","but","if","to","of","in","on","for","with","is","are",
   "was","were","be","been","being","i","me","my","you","your","we","they",
   "this","that","it","a","an","about","from","by","at","as"}

stop(rv) ==
  CASE rv = "p001" ->
         StopCommon \cup {"im","i'm","dont","don't","cant","can't",
                          "into","through","during","before","after"}
    [] rv = "p003" ->
         StopCommon \cup {"im","i'm","dont","don't","cant","can't","so","just","like","really"}
    [] rv = "p006" ->
         StopCommon \cup {"im","i'm","dont","don't","cant","can't","so","just","like","really",
                          "can","could","would","please","help","need","want","get","give",
                          "show","tell","also","how","do","does","did","what","why","when",
                          "where","who"}
    [] rv = "nav1" ->
         StopCommon \cup {"im","i'm","dont","don't","cant","can't","so","just","like","really",
                          "can","could","would","please","help","need","want","get","give",
                          "show","tell","also","now","yes","yeah","ok","okay","do","thanks",
                          "thank","find","some","stuff","thing","things","stop","no","nah"}
    [] OTHER -> StopCommon

TokenKept(rv, w) == Len(w) > 2 /\ w \notin stop(rv)

tokenize(rv, text) == SelectSeq(split(normalize(text)), LAMBDA w : TokenKept(rv, w))

(***************************************************************************)
(* CSV parser                                                              *)
(***************************************************************************)
Quote == "\""

RowKept(row) == \E k \in 1..Len(row) : row[k] # ""

\* a parser that keeps every row
pushRow_all(rows, row) == Append(rows, row)

pushRow(rows, row) == IF RowKept(row) THEN Append(rows, row) ELSE rows

\* an iteration that takes every quote for the start or end of a quoted run
parseStep_noEscape(csv, st, i) ==
  LET c == Ch(csv, i)
      n == IF i + 1 <= Len(csv) THEN Ch(csv, i + 1) ELSE "undefined"
  IN
  IF st.skip THEN [st EXCEPT !.skip = FALSE]
  ELSE IF c = Quote
    THEN [st EXCEPT !.inQuotes = ~st.inQuotes]
  ELSE IF c = "," /\ ~st.inQuotes
    THEN [st EXCEPT !.row = Append(st.row, st.field), !.field = ""]
  ELSE IF (c = "\n" \/ c = "\r") /\ ~st.inQuotes
    THEN [st EXCEPT !.rows = pushRow(st.rows, Append(st.row, st.field)),
                    !.row = <<>>, !.field = "", !.skip = (c = "\r" /\ n = "\n")]
  ELSE [st EXCEPT !.field = st.field \o c]

\* One iteration of the for loop, on character i; skip stands for the i++ of
\* an escaped quote or of a CR LF pair, which steps over the next character.
parseStep(csv, st, i) ==
  LET c == Ch(csv, i)
      n == IF i + 1 <= Len(csv) THEN Ch(csv, i + 1) ELSE "undefined"
  IN
  IF st.skip THEN [st EXCEPT !.skip = FALSE]
  ELSE IF c = Quote /\ st.inQuotes /\ n = Quote
    THEN [st EXCEPT !.field = st.field \o Quote, !.skip = TRUE]
  ELSE IF c = Quote
    THEN [st EXCEPT !.inQuotes = ~st.inQuotes]
  ELSE IF c = "," /\ ~st.inQuotes
    THEN [st EXCEPT !.row = Append(st.row, st.field), !.field = ""]
  ELSE IF (c = "\n" \/ c = "\r") /\ ~st.inQuotes
    THEN [st EXCEPT !.rows = pushRow(st.rows, Append(st.row, st.field)),
                    !.row = <<>>, !.field = "", !.skip = (c = "\r" /\ n = "\n")]
  ELSE [st EXCEPT !.field = st.field \o c]

\* the loop over characters lo..hi, halved so that the evaluation stays shallow
RECURSIVE parseLoop(_, _, _, _)
parseLoop(csv, st, lo, hi) ==
  IF lo > hi THEN st
  ELSE IF lo = hi THEN parseStep(csv, st, lo)
  ELSE LET mid == (lo + hi) \div 2
           left == parseLoop(csv, st, lo, mid)
       IN \* the left half is evaluated first, as the loop runs
          IF left.skip \in BOOLEAN THEN parseLoop(csv, left, mid + 1, hi) ELSE left

\* a parser that forgets the row the text ends in
parseCSV_noTail(csv) ==
  parseLoop(csv, [rows |-> <<>>, row |-> <<>>, field |-> "", inQuotes |-> FALSE,
                  skip |-> FALSE], 1, Len(csv)).rows

parseCSV(csv) ==
  LET st == parseLoop(csv, [rows |-> <<>>, row |-> <<>>, field |-> "", inQuotes |-> FALSE,
                            skip |-> FALSE], 1, Len(csv))
  IN pushRow(st.rows, Append(st.row, st.field))

(***************************************************************************)
(* Catalog loader: what loadResources computes from the fetched response   *)
(***************************************************************************)
required ==
  <<"id", "title", "description", "best_for", "when_to_use", "not_for",
    "fatherlessness_connection", "url">>

\* rows[0].map((h) => normalize(h).replace(/\s+/g, "_"))
headersOf(rows) == [k \in 1..Len(rows[1]) |-> replaceSpaceRuns(normalize(rows[1][k]), "_")]

\* headers.indexOf(name), 1-based; 0 stands for -1
col(headers, name) ==
  IF \E k \in 1..Len(headers) : headers[k] = name
    THEN CHOOSE k \in 1..Len(headers) :
           headers[k] = name /\ \A j \in 1..(k - 1) : headers[j] # name
    ELSE 0

\* a record that takes its cells as they stand in the sheet
cell_untrimmed(headers, r2, name) ==
  LET k == col(headers, name) IN
  IF k >= 1 /\ k <= Len(r2) THEN r2[k] ELSE ""

\* (r2[col(name)] || "").trim(); a cell that is not there is undefined
cell(headers, r2, name) ==
  LET k == col(headers, name) IN
  IF k >= 1 /\ k <= Len(r2) THEN trim(r2[k]) ELSE ""

toRecord(headers, r2) ==
  [ id |-> cell(headers, r2, "id"),
    title |-> cell(headers, r2, "title"),
    description |-> cell(headers, r2, "description"),
    best_for |-> cell(headers, r2, "best_for"),
    when_to_use |-> cell(headers, r2, "when_to_use"),
    not_for |-> cell(headers, r2, "not_for"),
    fatherlessness_connection |-> cell(headers, r2, "fatherlessness_connection"),
    url |-> cell(headers, r2, "url") ]

\* .filter((x) => x.id && x.title && x.url); the paraphrasing revision builds no
\* id and filters on title and url only
recordKept(rv, x) ==
  IF rv = "p005b" THEN x.title # "" /\ x.url # ""
  ELSE x.id # "" /\ x.title # "" /\ x.url # ""

itemsOf(rv, headers, rows) ==
  SelectSeq([k \in 1..(Len(rows) - 1) |->
               IF rv = "p005b"
                 THEN [toRecord(headers, rows[k + 1]) EXCEPT !.id = ""]
                 ELSE toRecord(headers, rows[k + 1])],
            LAMBDA x : recordKept(rv, x))

missingColumns(headers) ==
  { k \in 1..Len(required) : col(headers, required[k]) = 0 }

\* for (const c of required) if (!headers.includes(c)) throw new Error(`missing_column:${c}`)
firstMissing(missing) == required[CHOOSE k \in missing : \A j \in missing : k <= j]

\* the rows of the sheet to the records, or to the error thrown on the way
recordsOfRows(rv, rows, headers) ==
  IF rv # "p005b" /\ missingColumns(headers) # {}
    THEN [err |-> "missing_column:" \o firstMissing(missingColumns(headers)), items |-> <<>>]
    ELSE [err |-> "", items |-> itemsOf(rv, headers, rows)]

parseRows(rv, rows) ==
  IF rows = <<>>
    THEN [err |-> IF rv = "p005b" THEN "TypeError" ELSE "sheet_empty", items |-> <<>>]
    ELSE recordsOfRows(rv, rows, headersOf(rows))

\* loadResources from the response of its fetch to its items or its throw
parseSheet(rv, ok, text) ==
  IF ~ok THEN [err |-> "sheet_fetch_failed", items |-> <<>>]
  ELSE parseRows(rv, parseCSV(text))

(***************************************************************************)
(* The sheets of the model                                                 *)
(***************************************************************************)
Header == "id,Title,description,Best For,when_to_use,not_for,fatherlessness_connection,url"

SheetMain ==
  Header \o "\n"
  \o "1,Grief Group,teens processing grief,grief support,weekly,,helps fatherless teens with loss,https://a.org/g\n"
  \o "2,Crisis Line,call the hotline,anyone in crisis,right now,,,https://a.org/c\r\n"
  \o "3,Mentor Match,a mentor for teens,support,anytime,,for kids without a dad,https://a.org/m\n"
  \o "\n"
  \o "4,Girls Circle,support group for girls,teen girls,weekly,,, https://a.org/s \n"
  \o "5,Grief Camp,\"camp for grief, loss\",grief support,summer,,,https://a.org/k\n"
  \o "6,,a row without a title,,,,,https://a.org/x\n"

SheetAlt ==
  Header \o "\n"
  \o "9,Text Hotline,text a counselor,urgent help,any time,,,https://b.org/t\n"
  \o "8,Study Hall,homework help,students,after school,,,https://b.org/h"

\* a header row and no usable record
SheetHeaderOnly == Header \o "\n" \o "7,,no title,,,,,\n"

\* no url column
SheetNoUrl == "id,title,description,best_for,when_to_use,not_for,fatherlessness_connection\n1,a,b,c,d,e,f"

SheetBlank == "\n\n"

Sheets == {SheetMain, SheetAlt, SheetHeaderOnly, SheetNoUrl, SheetBlank}

\* what the fetch of the sheet resolves to: r.ok and r.text()
FetchOutcomes == {[ok |-> FALSE, text |-> ""]} \cup { [ok |-> TRUE, text |-> t] : t \in Sheets }

\* parseSheet over the sheets of the model, computed once
sheetTable == [rv \in Revs, o \in FetchOutcomes |-> parseSheet(rv, o.ok, o.text)]

\* every record a load of the model can yield
AllRecords ==
  UNION { { sheetTable[rv, o].items[k] : k \in 1..Len(sheetTable[rv, o].items) } :
            rv \in Revs, o \in FetchOutcomes }

(***************************************************************************)
(* Relevance scorer                                                        *)
(***************************************************************************)
crisisTerms(rv) ==
  IF rv = "p001"
    THEN {"crisis", "suicide", "self-harm", "hotline", "988", "emergency"}
    ELSE {"crisis", "suicide", "self-harm", "hotline", "988"}

crisisText(rv, resource) ==
  LET t == toLowerCase(resource.title \o " " \o resource.description \o " " \o resource.when_to_use)
  IN \E term \in crisisTerms(rv) : includes(t, term)

haystackText(rv, resource) ==
  tokenize(rv, resource.title \o " " \o resource.description \o " " \o resource.best_for \o " "
                  \o resource.fatherlessness_connection \o " " \o resource.when_to_use \o " "
                  \o resource.not_for)

\* the two above over the records of the model, computed once
crisisTable == [rv \in Revs, r \in AllRecords |-> crisisText(rv, r)]
haystackTable == [rv \in Revs, r \in AllRecords |-> haystackText(rv, r)]

isCrisisResource(rv, resource) == crisisTable[rv, resource]
haystackOf(rv, resource) == haystackTable[rv, resource]

\* queryTokens.includes(w)
inTokens(tokens, w) == \E k \in 1..Len(tokens) : tokens[k] = w

RECURSIVE sumRange(_, _, _)
sumRange(xs, lo, hi) ==
  IF lo > hi THEN 0
  ELSE IF lo = hi THEN xs[lo]
  ELSE LET mid == (lo + hi) \div 2 IN sumRange(xs, lo, mid) + sumRange(xs, mid + 1, hi)

sumSeq(xs) == sumRange(xs, 1, Len(xs))

fatherBonus(rv) == IF rv = "p001" THEN 6 ELSE IF rv = "p006" THEN 3 ELSE 5

fatherText(resource) ==
  LET fatherText == toLowerCase(resource.fatherlessness_connection) IN
  includes(fatherText, "father") \/ includes(fatherText, "dad") \/ includes(fatherText, "fatherless")

fatherTable == [r \in AllRecords |-> fatherText(r)]

hasFatherText(resource) == fatherTable[resource]

\* a scorer that gives the crisis bonus at every urgency
scoreResource_anyUrgency(rv, resource, queryTokens, tagTokens, urgency) ==
  LET haystack == haystackOf(rv, resource)
      perToken == [k \in 1..Len(haystack) |->
                     (IF inTokens(queryTokens, haystack[k]) THEN 3 ELSE 0)
                   + (IF inTokens(tagTokens, haystack[k]) THEN 5 ELSE 0)]
  IN sumSeq(perToken)
     + (IF hasFatherText(resource) THEN fatherBonus(rv) ELSE 0)
     + (IF isCrisisResource(rv, resource) THEN 10 ELSE 0)

\* scoreResource of p001 and p003 (p004 is p003's, line for line)
scoreResource(rv, resource, queryTokens, tagTokens, urgency) ==
  LET haystack == haystackOf(rv, resource)
      perToken == [k \in 1..Len(haystack) |->
                     (IF inTokens(queryTokens, haystack[k]) THEN 3 ELSE 0)
                   + (IF inTokens(tagTokens, haystack[k]) THEN 5 ELSE 0)]
  IN sumSeq(perToken)
     + (IF hasFatherText(resource) THEN fatherBonus(rv) ELSE 0)
     + (IF urgency = "high" /\ isCrisisResource(rv, resource) THEN 10 ELSE 0)

(***************************************************************************)
(* Candidate selector                                                      *)
(***************************************************************************)
\* a slice that keeps the whole array
sliceTo_whole(xs, n) == xs

\* xs.slice(0, n)
sliceTo(xs, n) == SubSeq(xs, 1, IF n < Len(xs) THEN n ELSE Len(xs))

\* Array.prototype.sort((a, b) => b.s - a.s): a stable sort (ECMAScript 2019),
\* here by insertion: x goes after every entry whose score is not lower.
insertByScore(sorted, x) ==
  LET before == { k \in 0..Len(sorted) : \A j \in 1..k : sorted[j].s >= x.s }
      at == CHOOSE k \in before : \A j \in before : j <= k
  IN SubSeq(sorted, 1, at) \o <<x>> \o SubSeq(sorted, at + 1, Len(sorted))

RECURSIVE sortByScore(_)
sortByScore(xs) ==
  IF xs = <<>> THEN <<>>
  ELSE insertByScore(sortByScore(SubSeq(xs, 1, Len(xs) - 1)), xs[Len(xs)])

\* resources.map((r) => ({ r, s: scoreResource(...) }))
scoredOf(rv, resources, queryTokens, tagTokens, urgency) ==
  [k \in 1..Len(resources) |->
     [r |-> resources[k], s |-> scoreResource(rv, resources[k], queryTokens, tagTokens, urgency)]]

\* a filter that keeps the records that score 0 too
rankedAllOf_nonNegative(scored) == sortByScore(SelectSeq(scored, LAMBDA x : x.s >= 0))

\* .filter((x) => x.s > 0).sort((a, b) => b.s - a.s)
rankedAllOf(scored) == sortByScore(SelectSeq(scored, LAMBDA x : x.s > 0))

\* a crisis policy without the fallback to the unfiltered list
crisisPolicy_noFallback(rv, rankedAll, urgency) ==
  IF urgency # "high"
    THEN SelectSeq(rankedAll, LAMBDA x : ~isCrisisResource(rv, x.r))
    ELSE rankedAll

\* a crisis policy that filters whatever the urgency
crisisPolicy_anyUrgency(rv, rankedAll, urgency) ==
  LET filtered == SelectSeq(rankedAll, LAMBDA x : ~isCrisisResource(rv, x.r))
  IN IF filtered = <<>> THEN rankedAll ELSE filtered

\* let ranked = rankedAll; if (urgency !== "high") { filter; if (!ranked.length) ranked = rankedAll }
crisisPolicy(rv, rankedAll, urgency) ==
  IF urgency # "high"
    THEN LET filtered == SelectSeq(rankedAll, LAMBDA x : ~isCrisisResource(rv, x.r))
         IN IF filtered = <<>> THEN rankedAll ELSE filtered
    ELSE rankedAll

maxOf(a, b) == IF a >= b THEN a ELSE b

recordsOf(ranked) == [k \in 1..Len(ranked) |-> ranked[k].r]

\* the { title, url } pair a response carries for a record
linkOf(r) == [title |-> r.title, url |-> r.url]
linksOf(rs) == [k \in 1..Len(rs) |-> linkOf(rs[k])]

(***************************************************************************)
(* Request classification helpers of the handlers                          *)
(***************************************************************************)
\* p001
wantSinglePick(message) ==
  LET t == normalize(message) IN
  \E phrase \in {"which is the best", "which one is best", "which is best", "pick one",
                 "choose one", "just one", "best one", "the best option"} : includes(t, phrase)

\* p003
RESOURCE_REQUEST_KEYWORDS ==
  {"resource", "help", "recommend", "option", "program", "support", "organization",
   "where can", "how do i", "do you have", "know any", "suggest", "idea", "what would help",
   "what can", "show me", "find me", "who can", "hotline", "therapy", "mentor",
   "support group", "group", "counseling"}

isSimpleGreeting(lower) == normalize(lower) \in {"hey", "hi", "hello", "yo", "sup"}

isAskingForResources(message) ==
  LET lower == trim(toLowerCase(message)) IN
  IF lower = "" THEN FALSE
  ELSE IF isSimpleGreeting(lower) THEN FALSE
  ELSE IF Len(lower) >= 18 THEN TRUE
  ELSE \E kw \in RESOURCE_REQUEST_KEYWORDS : includes(lower, kw)

\* sanitizeHistory: entries with a role of user or assistant, content cut to
\* 1200 characters (1400 in nav1), the last MAX_HISTORY_ITEMS of them
MAX_HISTORY_ITEMS(rv) ==
  CASE rv = "p001" -> 20
    [] rv = "p003" -> 30
    [] rv = "p006" -> 24
    [] rv = "nav1" -> 40
    [] OTHER -> 30

\* a sanitizer that keeps every entry with an accepted role
sanitizeHistory_all(rv, history) ==
  LET kept == SelectSeq(history, LAMBDA m : m.role \in {"user", "assistant"})
  IN [k \in 1..Len(kept) |-> [role |-> kept[k].role, content |-> kept[k].content]]

sanitizeHistory(rv, history) ==
  LET kept == SelectSeq(history, LAMBDA m : m.role \in {"user", "assistant"})
      cut == [k \in 1..Len(kept) |->
                [role |-> kept[k].role,
                 content |-> SubSeq(kept[k].content, 1,
                                    IF Len(kept[k].content) < (IF rv = "nav1" THEN 1400 ELSE 1200)
                                      THEN Len(kept[k].content)
                                      ELSE (IF rv = "nav1" THEN 1400 ELSE 1200))]]
  IN SubSeq(cut, maxOf(1, Len(cut) - MAX_HISTORY_ITEMS(rv) + 1), Len(cut))

(***************************************************************************)
(* The threshold revision (p006)                                           *)
(***************************************************************************)
\* history.slice(-maxTurns)
lastItems(xs, n) == SubSeq(xs, maxOf(1, Len(xs) - n + 1), Len(xs))

recentContextText(history, maxTurns) ==
  LET slice == lastItems(history, maxTurns)
      text == join([k \in 1..Len(slice) |-> slice[k].role \o ": " \o slice[k].content], "\n")
  IN SubSeq(text, 1, IF Len(text) < 3600 THEN Len(text) ELSE 3600)

userSignalsGirl(message, context) ==
  LET t == " " \o normalize(message) \o " " \o normalize(context) \o " " IN
  \E phrase \in {" i am a girl ", " i'm a girl ", " im a girl ", " as a girl ", " teen girl ",
                 " female ", " she/her ", " my daughter "} : includes(t, phrase)

genderSpecificText(resource) ==
  LET t == toLowerCase(resource.title \o " " \o resource.description \o " " \o resource.best_for)
  IN \E w \in {"girls", "girl", "women", "female"} : RegexTest({<<Lit(w)>>}, t)

genderSpecificTable == [r \in AllRecords |-> genderSpecificText(r)]

isGenderSpecificResource(resource) == genderSpecificTable[resource]

RESOURCE_INTENT_HINTS ==
  {"resources", "resource", "recommend", "recommendation", "options", "program", "programs",
   "support group", "therapy", "therapist", "counseling", "mentor", "mentorship", "hotline",
   "helpline", "where can i get help", "where do i go", "who can i talk to", "find me",
   "show me", "give me", "list"}

startsWith(s, prefix) == Len(prefix) <= Len(s) /\ SubSeq(s, 1, Len(prefix)) = prefix

interpretAsResourceSearch(message) ==
  LET t == normalize(message)
      howTo == startsWith(t, "how do i ") \/ startsWith(t, "how to ")
               \/ includes(t, " how do i ") \/ includes(t, " how to ")
      fixLearn == \E w \in {" fix ", " repair ", " learn ", " tutorial ", " guide "} : includes(t, w)
      explicit == \E kw \in RESOURCE_INTENT_HINTS : includes(toLowerCase(message), kw)
  IN explicit \/ (howTo /\ fixLearn) \/ howTo

scoreResource_p006(resource, queryTokens, contextTokens, tagTokens, urgency, allowGenderSpecific) ==
  LET hay == haystackOf("p006", resource)
      perToken == [k \in 1..Len(hay) |->
                     (IF inTokens(queryTokens, hay[k]) THEN 5 ELSE 0)
                   + (IF inTokens(tagTokens, hay[k]) THEN 6 ELSE 0)
                   + (IF inTokens(contextTokens, hay[k]) THEN 2 ELSE 0)]
  IN sumSeq(perToken)
     + (IF hasFatherText(resource) THEN fatherBonus("p006") ELSE 0)
     + (IF urgency = "high" /\ isCrisisResource("p006", resource) THEN 10 ELSE 0)
     - (IF ~allowGenderSpecific /\ isGenderSpecificResource(resource) THEN 8 ELSE 0)

\* resources.map(...).sort(...): every record stays, whatever its score
rankedAllOf_p006(resources, queryTokens, contextTokens, tagTokens, urgency, allowGenderSpecific) ==
  sortByScore([k \in 1..Len(resources) |->
     [r |-> resources[k],
      s |-> scoreResource_p006(resources[k], queryTokens, contextTokens, tagTokens, urgency,
                               allowGenderSpecific)]])

threshold == 6

\* ranked.filter((x) => x.s >= threshold).slice(0, 3).map((x) => x.r)
bestOf(ranked) == recordsOf(sliceTo(SelectSeq(ranked, LAMBDA x : x.s >= threshold), 3))

(***************************************************************************)
(* The first revision of api/navigate.js (nav1)                            *)
(***************************************************************************)
recentUserText(history, maxTurns) ==
  LET slice == SelectSeq(lastItems(history, maxTurns), LAMBDA m : m.role = "user")
      text == join([k \in 1..Len(slice) |-> slice[k].content], "\n")
  IN SubSeq(text, 1, IF Len(text) < 4500 THEN Len(text) ELSE 4500)

\* t.replace(/[^a-z]/g, "")
lettersOnly(t) ==
  concatRange([i \in 1..Len(t) |-> IF Ch(t, i) \in CharsOf(LowerAlpha) THEN Ch(t, i) ELSE ""],
              1, Len(t))

intentMap ==
  { <<"talk", {"talk","someone","support","listener","peer","mentor","counselor","counselling",
               "counseling","therapy","therapist"}>>,
    <<"support", {"support","community","peer","group","groups","help","guidance","connect",
                  "connection"}>>,
    <<"community", {"community","peer","group","groups","belonging","local","inperson","in-person"}>>,
    <<"confidence", {"confidence","selfesteem","self-esteem","assertiveness","motivation","courage"}>>,
    <<"anxiety", {"anxiety","panic","worry","nervous","stress"}>>,
    <<"stress", {"stress","overwhelmed","pressure","burnout"}>>,
    <<"grief", {"grief","loss","mourning"}>>,
    <<"friends", {"friends","friendship","social","lonely","loneliness"}>>,
    <<"relationships", {"relationships","dating","breakup","family","parents"}>>,
    <<"school", {"school","homework","grades","class","teacher","bullying"}>>,
    <<"mentor", {"mentor","mentorship","coach","rolemodel","role-model"}>>,
    <<"therapy", {"therapy","therapist","counseling","counselling","mentalhealth","mental-health"}>>,
    <<"fix", {"fix","repair","howto","how-to","tutorial","guide","skills","life","life-skills"}>> }

\* the expanded tokens, as a set: the code collects them in a Set and only
\* tests membership or iterates once over each
expandIntentTokens(tokens) ==
  LET keys == { lettersOnly(tokens[k]) : k \in 1..Len(tokens) }
      hits == { e \in intentMap : \E key \in keys : key # "" /\ (key = e[1] \/ key \in e[2]) }
      added == UNION { {e[1]} \cup { lettersOnly(w) : w \in e[2] } : e \in hits }
  IN (keys \cup added) \ {""}

\* /\b(i want to die|kill myself|end my life|self harm|cut myself)\b/i and
\* /\bpanic|can t breathe|freaking out|urgent\b/i, whose \b bind to the first
\* and the last alternative only
inferUrgency(messageNorm) ==
  LET s == toLowerCase(messageNorm) IN
  IF RegexTest({<<Lit("i want to die")>>, <<Lit("kill myself")>>, <<Lit("end my life")>>,
                <<Lit("self harm")>>, <<Lit("cut myself")>>}, messageNorm)
    THEN "high"
  ELSE IF \/ \E i \in 1..(Len(s) + 1) : \E e \in MatchEnds(<<Lit("panic")>>, s, i) : WordBoundary(s, i)
          \/ includes(s, "can t breathe")
          \/ includes(s, "freaking out")
          \/ \E i \in 1..(Len(s) + 1) : \E e \in MatchEnds(<<Lit("urgent")>>, s, i) : WordBoundary(s, e)
    THEN "medium"
  ELSE "low"

genderedText(resource) ==
  LET t == toLowerCase(resource.title \o " " \o resource.description \o " " \o resource.best_for)
  IN \E w \in {"girls", "girl ", "women", "female", "boys", "men", "male"} : includes(t, w)

genderedTable == [r \in AllRecords |-> genderedText(r)]

resourceIsGendered(resource) == genderedTable[resource]

\* new Set(tokenize(hayText).map((t) => t.replace(/[^a-z]/g, "")))
hayTokensText(resource) ==
  LET hayText == normalize(resource.title \o " " \o resource.description \o " " \o resource.best_for
                           \o " " \o resource.when_to_use \o " " \o resource.not_for \o " "
                           \o resource.fatherlessness_connection)
      hayList == tokenize("nav1", hayText)
  IN { lettersOnly(hayList[k]) : k \in 1..Len(hayList) }

hayTokensTable == [r \in AllRecords |-> hayTokensText(r)]

hayTokensOf(resource) == hayTokensTable[resource]

userIndicatedGender(messageNorm, historyNorm) ==
  LET t == toLowerCase(messageNorm \o "\n" \o historyNorm) IN
  \E w \in {"i am a girl", "i'm a girl", "im a girl", "female",
            "i am a boy", "i'm a boy", "im a boy", "male"} : includes(t, w)

scoreResource_nav1(resource, intentTokensExpanded, historyNorm, allowGendered, urgency) ==
  LET hayTokens == hayTokensOf(resource)
      cleanIntent == { tok \in intentTokensExpanded : lettersOnly(tok) # "" }
      wantsTalk == "talk" \in intentTokensExpanded \/ "support" \in intentTokensExpanded
      talkWords == {"talk","support","peer","mentor","therapy","therapist","counseling",
                    "counselling","group","listener"}
      ctxList == tokenize("nav1", historyNorm)
      ctxSet == { lettersOnly(ctxList[k]) : k \in 1..Len(ctxList) }
      crisis == isCrisisResource("nav1", resource)
  IN 4 * Cardinality({ tok \in cleanIntent : lettersOnly(tok) \in hayTokens })
     + (IF wantsTalk THEN 3 * Cardinality(talkWords \cap hayTokens) ELSE 0)
     + Cardinality({ tok \in cleanIntent : lettersOnly(tok) \in ctxSet /\ lettersOnly(tok) \in hayTokens })
     + (IF urgency = "high" /\ crisis THEN 30 ELSE 0)
     - (IF urgency # "high" /\ crisis THEN 10 ELSE 0)
     - (IF ~allowGendered /\ resourceIsGendered(resource) THEN 12 ELSE 0)
     + (IF Len(resource.description) > 30 THEN 1 ELSE 0)
     + (IF Len(resource.best_for) > 20 THEN 1 ELSE 0)

rankedOf_nav1(resources, expanded, historyNorm, allowGendered, urgency) ==
  sortByScore([k \in 1..Len(resources) |->
     [r |-> resources[k],
      s |-> scoreResource_nav1(resources[k], expanded, historyNorm, allowGendered, urgency)]])

\* a selection of the strong matches only
topOf_nav1_strongOnly(ranked) ==
  recordsOf(sliceTo(SelectSeq(ranked, LAMBDA x : x.s >= 8), 3))

\* let top = ranked.filter((x) => x.s >= 8).slice(0, 3) ... with its two fallbacks
topOf_nav1(ranked) ==
  LET strong == recordsOf(sliceTo(SelectSeq(ranked, LAMBDA x : x.s >= 8), 3))
      calm == recordsOf(sliceTo(SelectSeq(ranked, LAMBDA x : ~isCrisisResource("nav1", x.r)), 3))
  IN IF strong # <<>> THEN strong
     ELSE IF calm # <<>> THEN calm
     ELSE recordsOf(sliceTo(ranked, 3))

\* stripBadFormatting: trim; every "**" goes (leftmost first, so an odd run of
\* stars keeps its last one); every https?:\/\/\S+ goes, whatever its case; every
\* run of two or more whitespace characters becomes one space; trim
stripBadFormatting(text) ==
  LET t0 == trim(text)
      starRunStart(t, i) == CHOOSE a \in 1..i : /\ \A j \in a..i : Ch(t, j) = "*"
                                                /\ (a = 1 \/ Ch(t, a - 1) # "*")
      starRunEnd(t, i) == CHOOSE b \in i..Len(t) : /\ \A j \in i..b : Ch(t, j) = "*"
                                                   /\ (b = Len(t) \/ Ch(t, b + 1) # "*")
      starGoes(t, i) ==
        /\ Ch(t, i) = "*"
        /\ i - starRunStart(t, i) < 2 * ((starRunEnd(t, i) - starRunStart(t, i) + 1) \div 2)
      t1 == concatRange([i \in 1..Len(t0) |-> IF starGoes(t0, i) THEN "" ELSE Ch(t0, i)],
                        1, Len(t0))
      low == toLowerCase(t1)
      linkAt(j) ==
        \/ /\ j + 7 <= Len(low)
           /\ SubSeq(low, j, j + 6) = "http://"
           /\ Ch(low, j + 7) \notin SpaceChars
        \/ /\ j + 8 <= Len(low)
           /\ SubSeq(low, j, j + 7) = "https://"
           /\ Ch(low, j + 8) \notin SpaceChars
      linkGoes(i) == \E j \in 1..i : linkAt(j) /\ \A k \in j..i : Ch(low, k) \notin SpaceChars
      t2 == concatRange([i \in 1..Len(t1) |-> IF linkGoes(i) THEN "" ELSE Ch(t1, i)],
                        1, Len(t1))
      blank(i) == Ch(t2, i) \in SpaceChars
      t3 == concatRange([i \in 1..Len(t2) |->
                           IF ~blank(i) THEN Ch(t2, i)
                           ELSE IF i > 1 /\ blank(i - 1) THEN ""
                           ELSE IF i < Len(t2) /\ blank(i + 1) THEN " "
                           ELSE Ch(t2, i)],
                        1, Len(t2))
  IN trim(t3)

\* the paragraphs of the response: one per selected record, built by
\* buildParagraphFromCard from the record's title and url and the stripped
\* fields of the writer's card for its id (the defaults where a field is
\* missing).  The writer's cards: none, cards that leave the description to the
\* record, or cards whose fields carry links and bold marks.
paragraphsOf_nav1(style, top) ==
  LET card(r) ==
        CASE style = "echo" ->
               [description |-> "", why |-> "It fits what you asked for.",
                next_steps |-> "Open the link and pick a time."]
          [] style = "many" ->
               [description |-> "See https://x.example/1 **now**",
                why |-> "A match: HTTP://x.example/2  and more",
                next_steps |-> " ask athttps://x.example/3?q=1 "]
          [] OTHER -> [description |-> "", why |-> "", next_steps |-> ""]
      orElse(a, b) == IF a # "" THEN a ELSE b
      paragraph(r) ==
        join(<< r.title,
                r.url,
                "Description: " \o stripBadFormatting(
                   orElse(card(r).description,
                          orElse(r.description,
                                 "This is a resource from the YFN database that aligns with your request."))),
                "Why it matches what you're looking for: " \o stripBadFormatting(
                   orElse(card(r).why,
                          "It matches the theme of what you asked for based on the database fields.")),
                "Next steps: " \o stripBadFormatting(
                   orElse(card(r).next_steps,
                          "Open the link, review what it offers, and choose the closest fit for you.")) >>,
             "\n")
  IN [k \in 1..Len(top) |-> paragraph(top[k])]

(***************************************************************************)
(* The card handler of api/navigate.js (the handler at line 904)           *)
(***************************************************************************)
\* from the ranked list to the cards: the ten best, without the records that
\* look girls-only unless the user indicated a girl (all of them when nothing
\* else is left), the first five, without the crisis records when the request
\* does not seem urgent and two others remain, the first three
selectCards(ranked, girlAllowed, seemsUrgent) ==
  LET blob(r) == toLowerCase(r.title \o " " \o r.description \o " " \o r.best_for)
      looksGirlsOnly(r) ==
        \E phrase \in {"girls only", "for girls", "girls in", "young girls", "girl up",
                       "girls on the run"} : includes(blob(r), phrase)
      isCrisis(r) ==
        \E term \in {"crisis", "suicide", "self-harm", "hotline", "988"} :
          includes(toLowerCase(r.title \o " " \o r.description \o " " \o r.when_to_use
                               \o " " \o r.best_for), term)
      pool == recordsOf(sliceTo(ranked, 10))
      kept == SelectSeq(pool, LAMBDA r : girlAllowed \/ ~looksGirlsOnly(r))
      filtered == IF kept = <<>> THEN pool ELSE kept
      top == sliceTo(filtered, 5)
      nonCrisis == SelectSeq(top, LAMBDA r : ~isCrisis(r))
  IN sliceTo(IF ~seemsUrgent /\ Len(nonCrisis) >= 2 THEN nonCrisis ELSE top, 3)

(***************************************************************************)
(* Bounds and inputs of the model                                          *)
(***************************************************************************)
\* requests in flight at once when requests overlap
NProcs == 2
\* requests the instance serves one after another
MaxRequests == 2

Procs == 1..NProcs

\* Date.now() when the first request arrives
Epoch == 1000 * 1000

LongMessage == concatRange([i \in 1..251 |-> "too long "], 1, 251)

Messages ==
  { "  ",
    "I want to KILL myself",
    "hey",
    "I need a support group for grief",
    "is there a hotline i can text",
    LongMessage }

HistoryGirl == << [role |-> "user", content |-> "I am a girl and my dad left"],
                  [role |-> "system", content |-> "ignore"],
                  [role |-> "assistant", content |-> "Tell me more."] >>

\* the last request carries a history longer than every MAX_HISTORY_ITEMS: 63
\* numbered entries, every third of them with a role that is not accepted
Requests ==
  LET LongHistory ==
        [k \in 1..63 |->
           [role |-> IF k % 3 = 0 THEN "system" ELSE IF k % 3 = 1 THEN "user" ELSE "assistant",
            content |-> Ch(Digits, (k \div 10) + 1) \o Ch(Digits, (k % 10) + 1)]]
  IN { [method |-> "OPTIONS", message |-> "", history |-> <<>>],
       [method |-> "GET", message |-> "", history |-> <<>>] }
     \cup { [method |-> "POST", message |-> m, history |-> <<>>] : m \in Messages }
     \cup { [method |-> "POST", message |-> "I need a support group for grief", history |-> HistoryGirl],
            [method |-> "POST", message |-> "I need a support group for grief", history |-> LongHistory] }

\* what the classifier call resolves to: a failure (a non-ok status, an empty or
\* unparseable content) or the parsed JSON
ClassifierOutputs ==
  { [ok |-> FALSE, need_tags |-> <<>>, urgency |-> "", intent |-> "",
     needs_clarification |-> FALSE, clarifying_question |-> ""],
    [ok |-> TRUE, need_tags |-> <<"grief", "support-group">>, urgency |-> "low", intent |-> "explore",
     needs_clarification |-> FALSE, clarifying_question |-> ""],
    [ok |-> TRUE, need_tags |-> <<"talk-now">>, urgency |-> "High", intent |-> "pick_best",
     needs_clarification |-> FALSE, clarifying_question |-> ""],
    [ok |-> TRUE, need_tags |-> <<>>, urgency |-> "", intent |-> "",
     needs_clarification |-> TRUE, clarifying_question |-> "What kind of support do you want?"],
    [ok |-> TRUE, need_tags |-> <<"grief">>, urgency |-> "low", intent |-> "",
     needs_clarification |-> TRUE, clarifying_question |-> ""] }

\* what the rewriter call resolves to: a failure, or a JSON whose resources
\* (cards, items, paragraphs) repeat the given ones, exceed them, or are no array
RewriterOutputs == {"fail", "echo", "many", "noarray"}

InventedLinks ==
  << [title |-> "Made Up One", url |-> "https://x.example/1"],
     [title |-> "Made Up Two", url |-> "https://x.example/2"] >>

\* response.resources of the rewriter's JSON, given the records it was sent
writerResources(style, given) ==
  CASE style = "echo" -> linksOf(given)
    [] style = "many" -> linksOf(given) \o InventedLinks \o linksOf(given)
    [] OTHER -> <<>>

\* what the conversation call resolves to
ConvoOutputs == {"fail", "ok"}

(***************************************************************************)
(* State                                                                   *)
(***************************************************************************)
VARIABLES
  rev,      \* the revision deployed
  envOk,    \* OPENAI_API_KEY and GOOGLE_SHEET_CSV_URL are both set
  clock,    \* Date.now()
  CACHE,    \* the module-level cache { at, ttlMs, items }
  proc,     \* per request: its position (the await it is suspended at) and locals
  started,  \* requests started so far
  loads,    \* history: the (now, items) of every load that completed successfully
  sample,   \* the input a function of the handler is applied to on its own
  result    \* what the function returned for it

vars == <<rev, envOk, clock, CACHE, proc, started, loads, sample, result>>

NoSample == [kind |-> "none", text |-> "", table |-> <<>>, ending |-> "", missing |-> "",
             order |-> <<>>, rows |-> <<>>, r |-> <<>>, queryTokens |-> <<>>,
             tagTokens |-> <<>>, urgency |-> "", ranked |-> <<>>, girlAllowed |-> FALSE,
             seemsUrgent |-> FALSE]
NoResult == [done |-> FALSE, rows |-> <<>>, err |-> "", items |-> <<>>, text |-> "", s |-> 0]

\* CACHE.items is null or an array; an array, even an empty one, is truthy
Null == [isNull |-> TRUE, list |-> <<>>]
Arr(xs) == [isNull |-> FALSE, list |-> xs]

ttlInit == 2 * 60 * 1000

NoReq == [method |-> "", message |-> "", history |-> <<>>]
CacheInit == [at |-> 0, ttlMs |-> ttlInit, items |-> Null]

\* history of a request's loadResources call: Date.now() and CACHE at the call,
\* how the call ended, what it returned and CACHE right after it ended
NoCall == [made |-> FALSE, now |-> 0, before |-> CacheInit, outcome |-> "", ret |-> <<>>,
           after |-> CacheInit]
NoSel == [made |-> FALSE, urgency |-> "", catalog |-> <<>>, queryTokens |-> <<>>,
          tagTokens |-> <<>>, rankedAll |-> <<>>, ranked |-> <<>>,
          needs_clarification |-> FALSE, clarifying_question |-> ""]

Idle ==
  [ pc |-> "idle", req |-> NoReq, now |-> 0, resources |-> <<>>, limit |-> 0, top |-> <<>>,
    resp |-> <<>>, trace |-> <<>>, call |-> NoCall, sel |-> NoSel ]

(***************************************************************************)
(* loadResources                                                           *)
(***************************************************************************)
\* a hit test that never lets the cache expire
cacheHit_noExpiry(cache, now) == ~cache.items.isNull

\* a hit test that takes an empty cached array for no cache
cacheHit_nonEmpty(cache, now) ==
  ~cache.items.isNull /\ cache.items.list # <<>> /\ now - cache.at < cache.ttlMs

\* if (CACHE.items && now - CACHE.at < CACHE.ttlMs) return CACHE.items
cacheHit(cache, now) == ~cache.items.isNull /\ now - cache.at < cache.ttlMs

\* a replacement that refreshes the timestamp of a cache it leaves the old items in
storeCache_keepItems(cache, now, items) ==
  [at |-> now, ttlMs |-> cache.ttlMs, items |-> IF cache.items.isNull THEN Arr(items) ELSE cache.items]

\* CACHE = { at: now, ttlMs: CACHE.ttlMs, items }
storeCache(cache, now, items) == [at |-> now, ttlMs |-> cache.ttlMs, items |-> Arr(items)]

\* the end of loadResources, given what it made of the response: it throws, or
\* assigns CACHE and returns the items
finishWith(cache, now, r) ==
  IF r.err # ""
    THEN [err |-> r.err, items |-> <<>>, cache |-> cache]
    ELSE [err |-> "", items |-> r.items, cache |-> storeCache(cache, now, r.items)]

\* a load that assigns CACHE before it validates what it fetched
loadFinish_storeFirst(rv, cache, now, outcome) ==
  LET r == sheetTable[rv, outcome]
  IN [err |-> r.err, items |-> r.items, cache |-> storeCache(cache, now, r.items)]

\* loadResources from the resolution of its fetch to its return or throw:
\* every throw comes before the assignment to CACHE
loadFinish(rv, cache, now, outcome) == finishWith(cache, now, sheetTable[rv, outcome])

(***************************************************************************)
(* The handler, from one await to the next                                 *)
(***************************************************************************)
messageOf(st) == trim(st.req.message)
historyOf(rv, st) == sanitizeHistory(rv, st.req.history)

\* a handler that returns without sending
respond_silent(st, status, mode, resources, detail) ==
  [st EXCEPT !.pc = "done", !.now = 0, !.resources = <<>>, !.limit = 0, !.top = <<>>]

\* send(res, status, payload) and the return that follows it.  mode is the
\* payload's mode; the first navigate.js revision sends none and the label
\* is the branch that answered.

respond(st, status, mode, resources, detail) ==
  [st EXCEPT !.pc = "done",
             !.resp = Append(@, [status |-> status, mode |-> mode, resources |-> resources,
                                 detail |-> detail, paragraphs |-> <<>>]),
             !.now = 0, !.resources = <<>>, !.limit = 0, !.top = <<>>]

\* a catch block that answers as if nothing had matched
errorResponse_noMatch(rv, st, err) == respond(st, 200, "no_match", <<>>, "")

\* the catch block of the handler
errorResponse(rv, st, err) ==
  respond(st, 500, "error", <<>>, IF rv = "p001" THEN "Please try again in a moment." ELSE err)

\* await openaiJSON(...): the request is suspended on the call
callModel(st, kind) == [st EXCEPT !.pc = kind, !.trace = Append(@, "openaiJSON")]

SafetyLinks ==
  << [title |-> "988 Suicide & Crisis Lifeline", url |-> "https://988lifeline.org"],
     [title |-> "Crisis Text Line", url |-> "https://www.crisistextline.org"],
     [title |-> "Teen Line", url |-> "https://teenline.org"],
     [title |-> "Childhelp Hotline", url |-> "https://www.childhelp.org/hotline/"] >>

safetyResources(rv) ==
  CASE rv \in {"p001", "p003"} -> SafetyLinks
    [] rv = "nav1" -> << [title |-> "Teen Line (Didi Hirsch)", url |-> "https://didihirsch.org/teenline/"] >>
    [] OTHER -> <<>>

\* the first navigate.js revision from its ranking to its writer call
writeTop_nav1(st, urgency, ranked) ==
  callModel([st EXCEPT !.top = topOf_nav1(ranked),
                       !.sel = [made |-> TRUE, urgency |-> urgency, catalog |-> st.resources,
                                queryTokens |-> <<>>, tagTokens |-> <<>>,
                                rankedAll |-> ranked, ranked |-> ranked]],
            "rewrite")

rank_nav1(st, message, messageNorm, historyUserText, historyNorm, urgency) ==
  writeTop_nav1(st, urgency,
                rankedOf_nav1(st.resources,
                              expandIntentTokens(tokenize("nav1", trim(message \o "\n" \o historyUserText))),
                              historyNorm, userIndicatedGender(messageNorm, historyNorm), urgency))

match_nav1(st, message, messageNorm, historyUserText) ==
  rank_nav1(st, message, messageNorm, historyUserText, normalize(historyUserText),
            inferUrgency(messageNorm))

\* the code after `const resources = await loadResources(csvUrl)` up to the
\* next await or response
afterLoad(rv, st) ==
  CASE rv \in {"p001", "p003"} -> callModel(st, "classify")
    [] rv = "p005b" -> callModel([st EXCEPT !.top = st.resources], "rewrite")
    [] rv = "p006" ->
         IF ~interpretAsResourceSearch(messageOf(st))
           THEN callModel(st, "convo")
           ELSE callModel(st, "classify")
    [] OTHER ->
         IF st.resources = <<>>
           THEN respond(st, 200, "empty", <<>>, "")
           ELSE match_nav1(st, messageOf(st), normalize(messageOf(st)),
                           recentUserText(historyOf(rv, st), 14))

\* await loadResources(csvUrl), up to its return on a hit or to its fetch
loadResources(rv, st, cache, now) ==
  LET st1 == [st EXCEPT !.now = now,
                        !.trace = Append(@, "loadResources"),
                        !.call = [made |-> TRUE, now |-> now, before |-> cache,
                                  outcome |-> "pending", ret |-> <<>>, after |-> cache]]
  IN IF cacheHit(cache, now)
       THEN afterLoad(rv, [st1 EXCEPT !.resources = cache.items.list,
                                      !.call.outcome = "returned",
                                      !.call.ret = cache.items.list])
       ELSE [st1 EXCEPT !.pc = "fetch", !.trace = Append(@, "fetch")]

\* a handler that has no safety gate: every validated message enters the pipeline
handlerBody_ungated(rv, st, cache, now) ==
  IF rv = "p003" /\ ~isAskingForResources(messageOf(st))
    THEN callModel(st, "convo")
    ELSE loadResources(rv, st, cache, now)

\* the handler after validation: the safety gate, then the pipeline
handlerBody(rv, st, cache, now) ==
  IF rv # "p005b" /\ triggeredSafety(messageOf(st))
    THEN IF rv = "nav1"
           THEN \* the one paragraph of the fixed safety answer of this revision
                [respond(st, 200, "safety", safetyResources(rv), "")
                   EXCEPT !.resp[1].paragraphs =
                     << join(<< "Teen Line (Didi Hirsch)",
                                "https://didihirsch.org/teenline/",
                                "Description: Peer support for teens with supervised listeners. You can call, text, or email depending on availability.",
                                "Why it matches what you're looking for: This is the fastest option for talking to someone right now when things feel overwhelming or unsafe.",
                                "Next steps: Open the link and choose call or text. If it's an emergency, contact local emergency services immediately." >>,
                             "\n") >>]
           ELSE respond(st, 200, "safety", safetyResources(rv), "")
    ELSE IF rv = "p003" /\ ~isAskingForResources(messageOf(st))
           THEN callModel(st, "convo")
           ELSE loadResources(rv, st, cache, now)

\* the handler from its entry to its first await or response
handler(rv, env, st, cache, now) ==
  IF st.req.method = "OPTIONS" /\ rv # "p005b" THEN respond(st, 204, "", <<>>, "")
  ELSE IF st.req.method # "POST" THEN respond(st, 405, "error", <<>>, "POST only")
  ELSE IF ~env THEN respond(st, 500, "error", <<>>, "Missing environment variables")
  ELSE IF messageOf(st) = "" THEN respond(st, 400, "error", <<>>, "Missing message")
  ELSE IF rv # "p005b" /\ Len(messageOf(st)) > MAX_MESSAGE_LENGTH(rv)
    THEN respond(st, 400, "error", <<>>, "Message too long")
  ELSE handlerBody(rv, st, cache, now)

\* const rankedAll = resources.map(...)...sort(...) of the revisions that classify
rankingOf(rv, message, contextText, resources, out, urgency, queryTokens, tagTokens) ==
  IF rv = "p006"
    THEN rankedAllOf_p006(resources, queryTokens, tokenize(rv, contextText), tagTokens,
                          urgency, userSignalsGirl(message, contextText))
    ELSE rankedAllOf(scoredOf(rv, resources, queryTokens, tagTokens, urgency))

\* a handler that asks the classifier's question before it looks at the ranked
\* list
routeRanked_clarifyFirst(rv, st, out, intent, message, ranked) ==
  IF out.needs_clarification /\ out.clarifying_question # ""
    THEN respond(st, 200, "conversation", <<>>, "")
  ELSE IF ranked = <<>> THEN respond(st, 200, "no_match", <<>>, "")
  ELSE callModel([st EXCEPT !.limit = 3, !.top = recordsOf(sliceTo(ranked, 6))], "rewrite")

\* what the handler does with the ranked candidates
routeRanked(rv, st, out, intent, message, ranked) ==
  CASE rv = "p001" ->
         IF ranked = <<>> THEN respond(st, 200, "no_match", <<>>, "")
         ELSE callModel([st EXCEPT !.limit = IF intent = "pick_best" \/ wantSinglePick(message)
                                               THEN 1 ELSE 3,
                                   !.top = recordsOf(sliceTo(ranked,
                                             maxOf(IF intent = "pick_best" \/ wantSinglePick(message)
                                                     THEN 1 ELSE 3, 5)))],
                        "rewrite")
    [] rv = "p003" ->
         IF ranked = <<>> THEN respond(st, 200, "no_match", <<>>, "")
         ELSE IF out.needs_clarification /\ out.clarifying_question # ""
           THEN respond(st, 200, "conversation", <<>>, "")
         ELSE callModel([st EXCEPT !.limit = 3,
                                   !.top = recordsOf(sliceTo(ranked, maxOf(3, 6)))],
                        "rewrite")
    [] OTHER ->
         IF bestOf(ranked) = <<>> THEN respond(st, 200, "no_match", <<>>, "")
         ELSE callModel([st EXCEPT !.limit = 3, !.top = bestOf(ranked)], "rewrite")

\* the selection, recorded, then routed
selectRanked(rv, st, out, urgency, intent, message, queryTokens, tagTokens, rankedAll, ranked) ==
  routeRanked(rv,
              [st EXCEPT !.sel = [made |-> TRUE, urgency |-> urgency, catalog |-> st.resources,
                                  queryTokens |-> queryTokens, tagTokens |-> tagTokens,
                                  rankedAll |-> rankedAll, ranked |-> ranked,
                                  needs_clarification |-> out.needs_clarification,
                                  clarifying_question |-> out.clarifying_question]],
              out, intent, message, ranked)

rankCatalog(rv, st, out, urgency, intent, message, queryTokens, tagTokens, rankedAll) ==
  selectRanked(rv, st, out, urgency, intent, message, queryTokens, tagTokens, rankedAll,
               crisisPolicy(rv, rankedAll, urgency))

scoreCatalog(rv, st, out, urgency, intent, message, queryTokens, tagTokens) ==
  rankCatalog(rv, st, out, urgency, intent, message, queryTokens, tagTokens,
              rankingOf(rv, message, recentContextText(historyOf(rv, st), 10), st.resources, out,
                        urgency, queryTokens, tagTokens))

\* the code after the classification call resolves, up to the next await or
\* response
classifyReturn(rv, st, out) ==
  IF ~out.ok THEN errorResponse(rv, st, "openai_call_failed")
  ELSE scoreCatalog(rv, st, out,
                    toLowerCase(IF out.urgency = "" THEN "low" ELSE out.urgency),
                    toLowerCase(IF out.intent = "" THEN "explore" ELSE out.intent),
                    messageOf(st),
                    tokenize(rv, IF rv = "p001" THEN messageOf(st) \o "  " ELSE messageOf(st)),
                    tokenize(rv, join(out.need_tags, " ")))

\* the code after the conversation call resolves
convoReturn(rv, st, out) ==
  IF out = "fail" THEN errorResponse(rv, st, "openai_call_failed")
  ELSE respond(st, 200, IF rv = "p003" THEN "conversation" ELSE "clarify", <<>>, "")

\* { title: String(x.title || "").trim(), url: String(x.url || "").trim(), ... }
trimLinks(xs) == [k \in 1..Len(xs) |-> [title |-> trim(xs[k].title), url |-> trim(xs[k].url)]]

\* the code after the writer call resolves
rewriteReturn(rv, st, style) ==
  IF style = "fail" THEN errorResponse(rv, st, "openai_call_failed")
  ELSE CASE rv = "p001" ->
              respond(st, 200, "recommendations",
                      trimLinks(sliceTo(writerResources(style, st.top), st.limit)), "")
         [] rv = "p003" ->
              respond(st, 200, "recommendations_paragraphs", linksOf(sliceTo(st.top, st.limit)), "")
         [] rv = "p005b" -> respond(st, 200, "recommendations", <<>>, "")
         [] rv = "p006" -> respond(st, 200, "recommendations_structured", linksOf(st.top), "")
         [] OTHER ->
              [respond(st, 200, "recommendations", linksOf(st.top), "")
                 EXCEPT !.resp[1].paragraphs = paragraphsOf_nav1(style, st.top)]

(***************************************************************************)
(* The state machine                                                       *)
(***************************************************************************)
Init ==
  /\ rev \in Revs
  /\ envOk \in BOOLEAN
  /\ clock = Epoch
  /\ CACHE = CacheInit
  /\ proc = [p \in Procs |-> Idle]
  /\ started = 0
  /\ loads = {}
  /\ sample = NoSample
  /\ result = NoResult

\* ttlMs of the cache, which no revision changes after its initialisation
ttl == ttlInit

\* the time between two arrivals.  Date.now() is read at the entry of
\* loadResources only, which a request reaches in the step it arrives in, so
\* the time that passes while requests are suspended shows at the next arrival.
Delays == {0, 1, ttl - 1, ttl, ttl + 1}

\* a request arrives d ms after the one before it and runs to its first await
\* or to its response; it takes the slot of a request already answered
Start(p, r, d) ==
  /\ proc[p].pc \in {"idle", "done"}
  /\ started < MaxRequests
  /\ started = 0 => d = 0
  /\ started' = started + 1
  /\ clock' = clock + d
  /\ proc' = [proc EXCEPT ![p] = handler(rev, envOk, [Idle EXCEPT !.req = r], CACHE, clock')]
  /\ UNCHANGED <<rev, envOk, CACHE, loads, sample, result>>

\* the fetch of the sheet resolves: loadResources throws, or replaces CACHE and
\* returns, and the handler runs on to its next await or response
FetchReturn(p, outcome) ==
  /\ proc[p].pc = "fetch"
  /\ \E st \in {proc[p]} : \E r \in {loadFinish(rev, CACHE, st.now, outcome)} :
        /\ CACHE' = r.cache
        /\ IF r.err # ""
             THEN /\ proc' = [proc EXCEPT ![p] =
                       errorResponse(rev, [st EXCEPT !.call.outcome = "threw",
                                                     !.call.after = r.cache], r.err)]
                  /\ loads' = loads
             ELSE /\ proc' = [proc EXCEPT ![p] =
                       afterLoad(rev, [st EXCEPT !.resources = r.items,
                                                 !.call.outcome = "returned",
                                                 !.call.ret = r.items,
                                                 !.call.after = r.cache])]
                  /\ loads' = loads \cup {[at |-> st.now, items |-> r.items]}
  /\ UNCHANGED <<rev, envOk, clock, started, sample, result>>

ClassifyReturn(p, out) ==
  /\ proc[p].pc = "classify"
  /\ proc' = [proc EXCEPT ![p] = classifyReturn(rev, proc[p], out)]
  /\ UNCHANGED <<rev, envOk, clock, CACHE, started, loads, sample, result>>

ConvoReturn(p, out) ==
  /\ proc[p].pc = "convo"
  /\ proc' = [proc EXCEPT ![p] = convoReturn(rev, proc[p], out)]
  /\ UNCHANGED <<rev, envOk, clock, CACHE, started, loads, sample, result>>

RewriteReturn(p, style) ==
  /\ proc[p].pc = "rewrite"
  /\ proc' = [proc EXCEPT ![p] = rewriteReturn(rev, proc[p], style)]
  /\ UNCHANGED <<rev, envOk, clock, CACHE, started, loads, sample, result>>

\* the instance serves its requests one after another
Next ==
  \/ \E r \in Requests, d \in Delays : Start(1, r, d)
  \/ \E outcome \in FetchOutcomes : FetchReturn(1, outcome)
  \/ \E out \in ClassifierOutputs : ClassifyReturn(1, out)
  \/ \E out \in ConvoOutputs : ConvoReturn(1, out)
  \/ \E style \in RewriterOutputs : RewriteReturn(1, style)

Spec == Init /\ [][Next]_vars

\* the model call a request is suspended on ends, by its answer or by the abort
\* that the timer of openaiJSON fires after timeoutMs; the revisions named are
\* the ones whose openaiJSON sets that timer
ModelCallEnds ==
  /\ rev \in {"p003", "p006", "nav1"}
  /\ \/ \E out \in ClassifierOutputs : ClassifyReturn(1, out)
     \/ \E out \in ConvoOutputs : ConvoReturn(1, out)
     \/ \E style \in RewriterOutputs : RewriteReturn(1, style)

\* the instance with the progress its timers guarantee: no timer bounds the
\* fetch of the sheet, nor the model calls of the revisions without one
SpecTimed == Init /\ [][Next]_vars /\ WF_vars(ModelCallEnds)

\* the instance serves overlapping requests: each runs while the others are
\* suspended at an await
OverlapRevs == {"p001", "p003", "nav1"}

OverlapRequests ==
  { [method |-> "POST", message |-> m, history |-> <<>>] :
      m \in {"I need a support group for grief", "I want to KILL myself"} }

InitOverlap ==
  /\ rev \in OverlapRevs
  /\ envOk = TRUE
  /\ clock = Epoch
  /\ CACHE = CacheInit
  /\ proc = [p \in Procs |-> Idle]
  /\ started = 0
  /\ loads = {}
  /\ sample = NoSample
  /\ result = NoResult

NextOverlap ==
  \/ \E p \in Procs, r \in OverlapRequests, d \in Delays : proc[p].pc = "idle" /\ Start(p, r, d)
  \/ \E p \in Procs, outcome \in FetchOutcomes : FetchReturn(p, outcome)
  \/ \E p \in Procs, out \in ClassifierOutputs : out.intent = "explore" /\ ClassifyReturn(p, out)
  \/ \E p \in Procs : RewriteReturn(p, "echo")

SpecOverlap == InitOverlap /\ [][NextOverlap]_vars

(***************************************************************************)
(* parseCSV and the loader applied on their own to generated inputs        *)
(***************************************************************************)
\* rows of a table given to the parser
MaxRows == 2

\* table.map((row) => row.join(",")).join("\n")
serialize(table) == join([k \in 1..Len(table) |-> join(table[k], ",")], "\n")

\* tables of up to MaxRows rows, written as text with one of the endings
TableSamples ==
  LET SampleRows ==
        { <<"">>, <<"", "">>, <<"a">>, <<"a", "">>, <<"", "b">>, <<" ">>, <<"a", "b c", "">>,
          <<"b,c">>, <<"d\ne", "x">>, <<"e\rf">> }
  IN { [NoSample EXCEPT !.kind = "table", !.table = t, !.ending = e,
                        !.text = serialize(t) \o e] :
         t \in UNION { [1..n -> SampleRows] : n \in 0..MaxRows }, e \in {"", "\n", "\r\n"} }

\* a field that holds a comma, a newline and a quote, written enclosed in quotes
\* with each inner quote doubled, among other fields and rows
QuotedSamples ==
  LET quoted(s) ==
        Quote \o concatRange([i \in 1..Len(s) |->
                                IF Ch(s, i) = Quote THEN Quote \o Quote ELSE Ch(s, i)],
                             1, Len(s)) \o Quote
      QuotedContents == { "x,\"y\"\nz", "\",\n", "a\r\n\"\",b", ",\n\"" }
  IN { [NoSample EXCEPT !.kind = "quoted",
                        !.table = above \o << before \o <<c>> \o after >> \o below,
                        !.text = serialize(above \o << before \o <<quoted(c)>> \o after >>
                                             \o below)] :
         c \in QuotedContents,
         before \in {<<>>, <<"p">>, <<"">>},
         after \in {<<>>, <<"q">>, <<"", "r">>},
         above \in {<<>>, << <<"h1", "h2">> >>},
         below \in {<<>>, << <<"t">> >>} }

\* sheets in either column order, whole or lacking one required column
SheetSamples ==
  LET ColumnOrders ==
        { required,
          <<"id", "title", "url", "description", "best_for", "when_to_use", "not_for",
            "fatherlessness_connection">> }
      \* data rows: the cell of each column, and how many cells the row carries
      RowFull ==
        [ len |-> 8,
          cells |-> [id |-> " 1 ", title |-> "Grief Group ", description |-> "peer group",
                     best_for |-> "teens", when_to_use |-> "", not_for |-> " ",
                     fatherlessness_connection |-> "dad left", url |-> " https://a.org/g"] ]
      RowNoTitle ==
        [ len |-> 8,
          cells |-> [id |-> "2", title |-> "  ", description |-> "no title", best_for |-> "",
                     when_to_use |-> "", not_for |-> "", fatherlessness_connection |-> "",
                     url |-> "https://a.org/n"] ]
      RowShort ==
        [ len |-> 3,
          cells |-> [id |-> "3", title |-> "Short", description |-> "cut off",
                     best_for |-> "zz", when_to_use |-> "zz", not_for |-> "zz",
                     fatherlessness_connection |-> "zz", url |-> "https://a.org/s"] ]
      RowSets == { <<>>, <<RowFull>>, <<RowNoTitle, RowFull>>, <<RowShort, RowFull, RowShort>> }
      \* the columns a sheet carries, in its order
      columnsOf(order, missing) == SelectSeq(order, LAMBDA c : c # missing)
      headerCell(c) ==
        CASE c = "title" -> " Title "
          [] c = "best_for" -> "Best For"
          [] c = "when_to_use" -> "When-To-Use"
          [] c = "url" -> "URL"
          [] OTHER -> c
      sheetLine(columns, row) ==
        join([k \in 1..(IF row.len <= Len(columns) THEN row.len ELSE Len(columns)) |->
                row.cells[columns[k]]], ",")
      sheetText(columns, rows) ==
        join(<< join([k \in 1..Len(columns) |-> headerCell(columns[k])], ",") >>
               \o [k \in 1..Len(rows) |-> sheetLine(columns, rows[k])],
             "\n")
  IN { [NoSample EXCEPT !.kind = "sheet", !.missing = m, !.order = o, !.rows = rs,
                        !.text = sheetText(columnsOf(o, m), rs)] :
         o \in ColumnOrders, m \in {""} \cup { required[k] : k \in 1..Len(required) },
         rs \in RowSets }

\* characters of a text given to normalize
MaxTextLen == 3

\* texts of letters in both cases, a digit, an underscore, punctuation and
\* whitespace
TextSamples ==
  { [NoSample EXCEPT !.kind = "text", !.text = concatRange(t, 1, Len(t))] :
      t \in UNION { [1..n -> {"A", "b", "7", "_", "-", " ", "\t", "\n"}] : n \in 0..MaxTextLen } }

\* ranked lists given to the card handler's selection: up to MaxRanked records
\* of the main sheet in any order, with descending scores
MaxRanked == 3

InitFunctions ==
  LET RankedSamples ==
        LET records == sheetTable["nav1", [ok |-> TRUE, text |-> SheetMain]].items
            orders == UNION { { o \in [1..n -> 1..Len(records)] :
                                  \A i, j \in 1..n : i # j => o[i] # o[j] } : n \in 1..MaxRanked }
        IN { [NoSample EXCEPT !.kind = "ranked",
                              !.ranked = [k \in 1..Len(o) |-> [r |-> records[o[k]],
                                                               s |-> 10 * (Len(o) - k + 1)]],
                              !.girlAllowed = g, !.seemsUrgent = u] :
               o \in orders, g \in BOOLEAN, u \in BOOLEAN }
      \* a record of the main sheet, request tokens and tag tokens with and
      \* without repeats, and an urgency, given to scoreResource
      ScoreSamples ==
        LET records == sheetTable["p001", [ok |-> TRUE, text |-> SheetMain]].items
        IN { [NoSample EXCEPT !.kind = "score", !.r = records[k], !.queryTokens = q,
                              !.tagTokens = t, !.urgency = u] :
               k \in 1..Len(records),
               q \in {<<>>, <<"grief">>, <<"grief", "grief">>, <<"crisis", "crisis">>,
                      <<"support", "group", "grief">>, <<"dad">>},
               t \in {<<>>, <<"crisis">>, <<"grief", "support", "group">>, <<"teens", "teens">>},
               u \in {"low", "medium", "high"} }
  IN
  /\ rev \in Revs
  /\ envOk = TRUE
  /\ clock = Epoch
  /\ CACHE = CacheInit
  /\ proc = [p \in Procs |-> Idle]
  /\ started = 0
  /\ loads = {}
  /\ sample \in IF rev = "p001"
                  THEN TableSamples \cup QuotedSamples \cup SheetSamples \cup TextSamples
                       \cup ScoreSamples
                  ELSE IF rev = "nav1" THEN SheetSamples \cup RankedSamples
                  ELSE SheetSamples
  /\ result = NoResult

\* parseCSV(text)
Parse ==
  /\ sample.kind \in {"table", "quoted"}
  /\ ~result.done
  /\ result' = [NoResult EXCEPT !.done = TRUE, !.rows = parseCSV(sample.text)]
  /\ UNCHANGED <<rev, envOk, clock, CACHE, proc, started, loads, sample>>

\* loadResources on a miss, the fetch answering with the text of the sheet
Load ==
  /\ sample.kind = "sheet"
  /\ ~result.done
  /\ \E f \in {finishWith(CACHE, clock, parseSheet(rev, TRUE, sample.text))} :
        /\ CACHE' = f.cache
        /\ result' = [NoResult EXCEPT !.done = TRUE, !.err = f.err, !.items = f.items]
  /\ UNCHANGED <<rev, envOk, clock, proc, started, loads, sample>>

\* normalize(text)
Normalize ==
  /\ sample.kind = "text"
  /\ ~result.done
  /\ result' = [NoResult EXCEPT !.done = TRUE, !.text = normalize(sample.text)]
  /\ UNCHANGED <<rev, envOk, clock, CACHE, proc, started, loads, sample>>

\* the selection of the card handler
Select ==
  /\ sample.kind = "ranked"
  /\ ~result.done
  /\ result' = [NoResult EXCEPT !.done = TRUE,
                                !.items = selectCards(sample.ranked, sample.girlAllowed,
                                                      sample.seemsUrgent)]
  /\ UNCHANGED <<rev, envOk, clock, CACHE, proc, started, loads, sample>>

\* scoreResource(resource, queryTokens, tagTokens, urgency)
Score ==
  /\ sample.kind = "score"
  /\ ~result.done
  /\ result' = [NoResult EXCEPT !.done = TRUE,
                                !.s = scoreResource(rev, sample.r, sample.queryTokens,
                                                    sample.tagTokens, sample.urgency)]
  /\ UNCHANGED <<rev, envOk, clock, CACHE, proc, started, loads, sample>>

NextFunctions == Parse \/ Load \/ Normalize \/ Select \/ Score

SpecFunctions == InitFunctions /\ [][NextFunctions]_vars

(***************************************************************************)
(* Properties                                                              *)
(***************************************************************************)
\* the request passed validation: POST, both environment variables set, a
\* message that is non-empty after trimming and within the length cap
validated(rv, env, st) ==
  /\ st.pc # "idle"
  /\ st.req.method = "POST"
  /\ env
  /\ messageOf(st) # ""
  /\ (rv # "p005b" => Len(messageOf(st)) <= MAX_MESSAGE_LENGTH(rv))

\* the request was answered once, with the fixed safety response
safetyDisposition(rv, st) ==
  /\ st.pc = "done"
  /\ Len(st.resp) = 1
  /\ st.resp[1].status = 200
  /\ st.resp[1].mode = "safety"
  /\ st.resp[1].resources = safetyResources(rv)
  /\ st.resp[1].detail = ""

GatedRevs == {"p001", "p003", "p006", "nav1"}

\* C1: in the revisions that test SAFETY_REGEX, a validated POST whose message
\* matches a safety pattern is answered with the fixed safety response, and
\* within that request neither loadResources nor openaiJSON is ever started,
\* whatever the cache holds and whatever the sheet or the model would answer.
C1_SafetyGateFirst ==
  \A p \in Procs :
    (rev \in GatedRevs /\ validated(rev, envOk, proc[p]) /\ triggeredSafety(messageOf(proc[p])))
      => /\ safetyDisposition(rev, proc[p])
         /\ proc[p].trace = <<>>
         /\ ~proc[p].call.made

\* a crisis message answered by the safety response while the cache holds a
\* catalog that an earlier request loaded
C1_Witness ==
  /\ rev \in {"p001", "p003", "nav1"}
  /\ started = 2
  /\ ~CACHE.items.isNull
  /\ validated(rev, envOk, proc[1])
  /\ triggeredSafety(messageOf(proc[1]))
  /\ safetyDisposition(rev, proc[1])

\* C2: the paraphrasing revision (second handler of part_005) answers a
\* validated message that matches a SAFETY_REGEX pattern with the safety
\* response and calls neither loadResources nor openaiJSON for it.
C2_ParaphraserShortCircuits ==
  \A p \in Procs :
    (rev = "p005b" /\ validated(rev, envOk, proc[p]) /\ triggeredSafety(messageOf(proc[p])))
      => /\ safetyDisposition(rev, proc[p])
         /\ proc[p].trace = <<>>

RecommendationModes ==
  {"recommendations", "recommendations_paragraphs", "recommendations_structured"}

\* C3: whatever the catalog size and the scores, a recommendation response
\* carries at most 3 resources.
C3_AtMostThreeResources ==
  \A p \in Procs : \A k \in 1..Len(proc[p].resp) :
    (proc[p].resp[k].status = 200 /\ proc[p].resp[k].mode \in RecommendationModes)
      => Len(proc[p].resp[k].resources) <= 3

\* a recommendation response of three resources chosen among more than three
\* ranked candidates
C3_Witness ==
  /\ rev \in {"p001", "p003", "p006"}
  /\ proc[1].pc = "done"
  /\ proc[1].sel.made
  /\ Len(proc[1].sel.ranked) > 3
  /\ Len(proc[1].resp) = 1
  /\ proc[1].resp[1].mode \in RecommendationModes
  /\ Len(proc[1].resp[1].resources) = 3

\* the revisions whose ranking keeps the positive scores and then applies the
\* crisis policy
RankingRevs == {"p001", "p003"}

nonCrisisOf(rv, ranked) == SelectSeq(ranked, LAMBDA x : ~isCrisisResource(rv, x.r))

\* C4: when urgency is not "high" and removing the crisis resources from the
\* positive-score list leaves nothing, the unfiltered list is used; so the
\* filtered list `ranked` is empty only if `rankedAll` is empty.
C4_CrisisFallback ==
  \A p \in Procs :
    (rev \in RankingRevs /\ proc[p].sel.made)
      => /\ (proc[p].sel.urgency # "high" /\ nonCrisisOf(rev, proc[p].sel.rankedAll) = <<>>)
              => proc[p].sel.ranked = proc[p].sel.rankedAll
         /\ proc[p].sel.ranked = <<>> => proc[p].sel.rankedAll = <<>>

\* a request of non-high urgency whose only positive-score records are crisis
\* resources, and which got them as its ranked list
C4_Witness ==
  /\ rev \in RankingRevs
  /\ proc[1].sel.made
  /\ proc[1].sel.urgency # "high"
  /\ proc[1].sel.rankedAll # <<>>
  /\ nonCrisisOf(rev, proc[1].sel.rankedAll) = <<>>
  /\ proc[1].sel.ranked = proc[1].sel.rankedAll

\* the score of a record without the bonus that high urgency gives a crisis resource
baseScore(rv, resource, queryTokens, tagTokens) ==
  scoreResource(rv, resource, queryTokens, tagTokens, "low")

crisisWithBaseScore(rv, sel) ==
  { k \in 1..Len(sel.catalog) :
      /\ isCrisisResource(rv, sel.catalog[k])
      /\ baseScore(rv, sel.catalog[k], sel.queryTokens, sel.tagTokens) > 0 }

\* C5: when urgency is "high", every crisis-flagged record of the catalog that
\* has a positive base score is in the final ranked list.
C5_CrisisKeptWhenHigh ==
  \A p \in Procs :
    (rev \in RankingRevs /\ proc[p].sel.made /\ proc[p].sel.urgency = "high")
      => \A k \in crisisWithBaseScore(rev, proc[p].sel) :
           \E j \in 1..Len(proc[p].sel.ranked) :
             proc[p].sel.ranked[j].r = proc[p].sel.catalog[k]

\* a request of high urgency whose ranked list holds a crisis record of positive
\* base score next to records that are no crisis resources
C5_Witness ==
  /\ rev \in RankingRevs
  /\ proc[1].sel.made
  /\ proc[1].sel.urgency = "high"
  /\ crisisWithBaseScore(rev, proc[1].sel) # {}
  /\ nonCrisisOf(rev, proc[1].sel.ranked) # <<>>
  /\ \A k \in crisisWithBaseScore(rev, proc[1].sel) :
       \E j \in 1..Len(proc[1].sel.ranked) : proc[1].sel.ranked[j].r = proc[1].sel.catalog[k]

scoreAt(rv, sel, k) ==
  scoreResource(rv, sel.catalog[k], sel.queryTokens, sel.tagTokens, sel.urgency)

\* the place in the catalog of the j-th ranked record
catalogIndex(sel, j) ==
  CHOOSE k \in 1..Len(sel.catalog) : sel.catalog[k] = sel.rankedAll[j].r

\* C6: the ranked list is exactly the catalog records whose score is strictly
\* positive, each once and with its score, ordered by descending score, records
\* of equal score in their catalog order; no record scoring 0 or less appears.
C6_RankedPositiveDescendingStable ==
  \A p \in Procs :
    (rev \in RankingRevs /\ proc[p].sel.made)
      => /\ Len(proc[p].sel.rankedAll)
              = Cardinality({ k \in 1..Len(proc[p].sel.catalog) : scoreAt(rev, proc[p].sel, k) > 0 })
         /\ \A j \in 1..Len(proc[p].sel.rankedAll) :
              /\ \E k \in 1..Len(proc[p].sel.catalog) :
                   proc[p].sel.catalog[k] = proc[p].sel.rankedAll[j].r
              /\ proc[p].sel.rankedAll[j].s = scoreAt(rev, proc[p].sel, catalogIndex(proc[p].sel, j))
              /\ proc[p].sel.rankedAll[j].s > 0
         /\ \A i, j \in 1..Len(proc[p].sel.rankedAll) :
              i < j => \/ proc[p].sel.rankedAll[i].s > proc[p].sel.rankedAll[j].s
                       \/ /\ proc[p].sel.rankedAll[i].s = proc[p].sel.rankedAll[j].s
                          /\ catalogIndex(proc[p].sel, i) < catalogIndex(proc[p].sel, j)

\* a ranking that leaves out a record scoring 0, moves a record ahead of one
\* that precedes it in the catalog, and holds two records of equal score
C6_Witness ==
  /\ rev \in RankingRevs
  /\ proc[1].sel.made
  /\ Len(proc[1].sel.rankedAll) < Len(proc[1].sel.catalog)
  /\ \E i, j \in 1..Len(proc[1].sel.rankedAll) :
       /\ i < j
       /\ proc[1].sel.rankedAll[i].s = proc[1].sel.rankedAll[j].s
  /\ \E i, j \in 1..Len(proc[1].sel.rankedAll) :
       /\ i < j
       /\ proc[1].sel.rankedAll[i].s > proc[1].sel.rankedAll[j].s
       /\ catalogIndex(proc[1].sel, i) > catalogIndex(proc[1].sel, j)

\* network fetches a request started so far
fetchCount(st) == Cardinality({ k \in 1..Len(st.trace) : st.trace[k] = "fetch" })

\* the (time, items) pair a cache holds
snapshotOf(cache) == [at |-> cache.at, items |-> cache.items.list]

\* the request called loadResources while CACHE held the snapshot of a
\* successful load
calledWithSnapshot(st) ==
  /\ st.call.made
  /\ ~st.call.before.items.isNull
  /\ snapshotOf(st.call.before) \in loads

\* the call ended with CACHE replaced by what it loaded
replacedCache(st) ==
  st.call.after = [at |-> st.call.now, ttlMs |-> ttl, items |-> Arr(st.call.ret)]

\* C7 as stated: after a successful load at time T (the snapshot CACHE holds),
\* a loadResources call at t with t - T < ttl performs no fetch and returns the
\* cached items, and a call at t with t - T > ttl performs exactly one fetch
\* and then replaces the cache.
C7_FreshnessAsStated ==
  \A p \in Procs :
    calledWithSnapshot(proc[p])
      => /\ proc[p].call.now - proc[p].call.before.at < ttl
              => /\ fetchCount(proc[p]) = 0
                 /\ proc[p].call.outcome = "returned"
                 /\ proc[p].call.ret = proc[p].call.before.items.list
         /\ proc[p].call.now - proc[p].call.before.at > ttl
              => /\ fetchCount(proc[p]) = 1
                 /\ proc[p].call.outcome # "pending"
                      => proc[p].call.outcome = "returned" /\ replacedCache(proc[p])

\* C7 (amended): while CACHE holds the snapshot of a successful load at time T,
\* a loadResources call at t with t - T < ttl performs no fetch and returns the
\* cached items; a call at t with t - T > ttl performs exactly one fetch and,
\* if that load succeeds, replaces the cache.
C7_Freshness ==
  \A p \in Procs :
    calledWithSnapshot(proc[p])
      => /\ proc[p].call.now - proc[p].call.before.at < ttl
              => /\ fetchCount(proc[p]) = 0
                 /\ proc[p].call.outcome = "returned"
                 /\ proc[p].call.ret = proc[p].call.before.items.list
         /\ proc[p].call.now - proc[p].call.before.at > ttl
              => /\ fetchCount(proc[p]) = 1
                 /\ proc[p].call.outcome = "returned" => replacedCache(proc[p])

\* a call made after the cached snapshot expired: it fetched once, the load
\* succeeded and CACHE holds what it loaded
C7_Witness ==
  /\ calledWithSnapshot(proc[1])
  /\ proc[1].call.now - proc[1].call.before.at > ttl
  /\ fetchCount(proc[1]) = 1
  /\ proc[1].call.outcome = "returned"
  /\ CACHE = proc[1].call.after
  /\ CACHE # proc[1].call.before

\* C8 as stated: a cache hit requires a non-expired and non-empty cached
\* catalog; after a successful load of zero valid records the next call within
\* the TTL still fetches.
C8_HitNeedsNonEmptyAsStated ==
  \A p \in Procs :
    proc[p].call.made
      => /\ fetchCount(proc[p]) = 0
              => /\ ~proc[p].call.before.items.isNull
                 /\ proc[p].call.before.items.list # <<>>
                 /\ proc[p].call.now - proc[p].call.before.at < ttl
         /\ (calledWithSnapshot(proc[p]) /\ proc[p].call.before.items.list = <<>>
               /\ proc[p].call.now - proc[p].call.before.at < ttl)
              => fetchCount(proc[p]) = 1

\* C8 (amended): a cache hit requires a non-expired and non-null cached
\* catalog; after a successful load of zero valid records the next call within
\* the TTL performs no fetch and returns the empty cached sequence.
C8_HitNeedsNonNull ==
  \A p \in Procs :
    proc[p].call.made
      => /\ fetchCount(proc[p]) = 0
              => /\ ~proc[p].call.before.items.isNull
                 /\ proc[p].call.now - proc[p].call.before.at < ttl
         /\ (calledWithSnapshot(proc[p]) /\ proc[p].call.before.items.list = <<>>
               /\ proc[p].call.now - proc[p].call.before.at < ttl)
              => /\ fetchCount(proc[p]) = 0
                 /\ proc[p].call.outcome = "returned"
                 /\ proc[p].call.ret = <<>>

\* a call within the TTL of a load that cached zero records
C8_Witness ==
  /\ rev \in {"p003", "nav1"}
  /\ calledWithSnapshot(proc[1])
  /\ proc[1].call.before.items.list = <<>>
  /\ proc[1].call.now - proc[1].call.before.at < ttl
  /\ proc[1].call.outcome = "returned"

\* the step in which the load of request p ends
loadEnds(p) == proc[p].pc = "fetch" /\ proc'[p].pc # "fetch"

\* C9: a loadResources call that fails (a non-success status, no parsed row, a
\* missing required column) leaves CACHE (at, ttlMs, items) exactly as it was
\* before the call; only a load that succeeds changes CACHE.
C9_FailedLoadKeepsCache ==
  [][ /\ \A p \in Procs :
           (loadEnds(p) /\ proc'[p].call.outcome = "threw")
             => CACHE' = CACHE /\ CACHE' = proc'[p].call.before
      /\ CACHE' # CACHE
           => \E p \in Procs : loadEnds(p) /\ proc'[p].call.outcome = "returned" ]_vars

\* a load that failed after the cached snapshot had expired, the snapshot still
\* in CACHE
C9_Witness ==
  /\ rev \in {"p001", "p003"}
  /\ calledWithSnapshot(proc[1])
  /\ proc[1].call.outcome = "threw"
  /\ proc[1].call.before.items.list # <<>>
  /\ CACHE = proc[1].call.before

\* C10: under any interleaving of requests that suspend at their awaits, CACHE
\* is replaced only as a whole value: it is the initial cache or the (at, items)
\* of one completed load, a request that loadResources returned to holds the
\* complete items of one load (on a hit, of the snapshot it found), and CACHE
\* changes only in the step a load completes, to that load's time and items.
C10_WholeValueReplacement ==
  /\ [](\/ CACHE = CacheInit
        \/ /\ ~CACHE.items.isNull
           /\ CACHE.ttlMs = ttl
           /\ snapshotOf(CACHE) \in loads)
  /\ [](\A p \in Procs :
          (proc[p].call.made /\ proc[p].call.outcome = "returned")
            => IF fetchCount(proc[p]) = 0
                 THEN /\ snapshotOf(proc[p].call.before) \in loads
                      /\ proc[p].call.ret = proc[p].call.before.items.list
                 ELSE [at |-> proc[p].call.now, items |-> proc[p].call.ret] \in loads)
  /\ [][ CACHE' # CACHE
           => \E p \in Procs :
                /\ loadEnds(p)
                /\ proc'[p].call.outcome = "returned"
                /\ CACHE' = [at |-> proc[p].call.now, ttlMs |-> CACHE.ttlMs,
                             items |-> Arr(proc'[p].call.ret)] ]_vars

\* two overlapping requests both fetched and loaded different catalogs; the one
\* that called first finished last, and CACHE holds its snapshot whole
C10_Witness ==
  /\ proc[1].call.outcome = "returned"
  /\ proc[2].call.outcome = "returned"
  /\ fetchCount(proc[1]) = 1
  /\ fetchCount(proc[2]) = 1
  /\ proc[1].call.ret # proc[2].call.ret
  /\ proc[1].call.now < proc[2].call.now
  /\ CACHE = [at |-> proc[1].call.now, ttlMs |-> ttl, items |-> Arr(proc[1].call.ret)]


\* a sheet was given to loadResources and it has ended
loaded == sample.kind = "sheet" /\ result.done

\* C11: when the header row of the sheet lacks one of the 8 required columns,
\* loadResources throws the missing-column error naming that column, returns no
\* record and leaves the cache as it was.
C11_MissingColumnFailsLoud ==
  (loaded /\ sample.missing # "") =>
    /\ result.err = "missing_column:" \o sample.missing
    /\ result.items = <<>>
    /\ CACHE = CacheInit


\* the cell a data row of a sample sheet carries for a column, trimmed; "" when
\* the sheet or the row does not carry the column
sourceCell(smp, row, c) ==
  LET carried == SelectSeq(smp.order, LAMBDA x : x # smp.missing)
      at == { k \in 1..Len(carried) : carried[k] = c }
  IN IF at # {} /\ (CHOOSE k \in at : TRUE) <= row.len THEN trim(row.cells[c]) ELSE ""

sourceRecord(smp, row) ==
  [ id |-> sourceCell(smp, row, "id"),
    title |-> sourceCell(smp, row, "title"),
    description |-> sourceCell(smp, row, "description"),
    best_for |-> sourceCell(smp, row, "best_for"),
    when_to_use |-> sourceCell(smp, row, "when_to_use"),
    not_for |-> sourceCell(smp, row, "not_for"),
    fatherlessness_connection |-> sourceCell(smp, row, "fatherlessness_connection"),
    url |-> sourceCell(smp, row, "url") ]

\* the loaders that build records with an id (part_001:144-156 and its descendants)
IdLoaders == Revs \ {"p005b"}

chosenOf(rv, st) ==
  IF rv \in {"p001", "p003"} THEN recordsOf(sliceTo(st.sel.ranked, st.limit))
  ELSE IF rv = "nav1" THEN topOf_nav1(st.sel.ranked)
  ELSE bestOf(st.sel.ranked)

\* C13: while the rewriting call of a request is in flight, the resources it was
\* given are the records the selector chose for the response, at most 3 of them.
C13_RewriterGetsSelectionOnly ==
  \A p \in Procs :
    proc[p].pc = "rewrite" =>
      /\ proc[p].sel.made
      /\ Len(proc[p].top) <= 3
      /\ proc[p].top = chosenOf(rev, proc[p])


\* the request was answered with a clarifying question after its candidates
\* were ranked (the only branch to it is guarded by the classifier's
\* needs_clarification and clarifying_question)
clarifiedAfterRanking(st) ==
  /\ st.pc = "done"
  /\ st.sel.made
  /\ st.resp # <<>>
  /\ st.resp[Len(st.resp)].mode \in {"conversation", "clarify"}

\* C14: a request is answered with a clarifying question only when the top
\* score of its ranked candidates is below the weak threshold (8) and the gap
\* between its top two scores is within the close threshold (2), the classifier
\* having flagged ambiguity; a flag with a strong or clearly separated top match
\* never ends in a clarifying question.
C14_ClarifyOnlyWhenWeakAndClose ==
  \A p \in Procs :
    clarifiedAfterRanking(proc[p]) =>
      LET ranked == proc[p].sel.ranked IN
      /\ ranked # <<>>
      /\ ranked[1].s < 8
      /\ Len(ranked) >= 2
      /\ ranked[1].s - ranked[2].s <= 2


\* the modes of the terminal dispositions: safety, the clarifying question,
\* no match (the first navigate.js revision answers an empty catalog without a
\* mode), and the recommendations
DispositionModes ==
  {"safety", "conversation", "clarify", "no_match", "empty"} \cup RecommendationModes

\* how far a request is in the pipeline
stageOf(pc) ==
  CASE pc = "idle" -> 0
    [] pc = "fetch" -> 1
    [] pc \in {"classify", "convo"} -> 2
    [] pc = "rewrite" -> 3
    [] OTHER -> 4

timesIn(trace, name) == Cardinality({ k \in 1..Len(trace) : trace[k] = name })

\* C15: a handler invocation that has returned has sent exactly one response, a
\* terminal disposition or an error (or the empty answer to a preflight), and one
\* that is suspended has sent none; within a request loadResources and its fetch
\* run at most once, at most the classification and the rewriting call are made,
\* and every step takes the request to a later stage.
C15_ExactlyOneResponse ==
  /\ [](\A p \in Procs :
          /\ proc[p].pc = "done" =>
               /\ Len(proc[p].resp) = 1
               /\ \/ proc[p].resp[1].status = 200 /\ proc[p].resp[1].mode \in DispositionModes
                  \/ proc[p].resp[1].status >= 400 /\ proc[p].resp[1].mode = "error"
                  \/ proc[p].resp[1].status = 204 /\ proc[p].req.method = "OPTIONS"
          /\ proc[p].pc # "done" => proc[p].resp = <<>>
          /\ timesIn(proc[p].trace, "loadResources") <= 1
          /\ timesIn(proc[p].trace, "fetch") <= 1
          /\ timesIn(proc[p].trace, "openaiJSON") <= 2)
  /\ [][\A p \in Procs :
          proc'[p] # proc[p] =>
            \/ proc[p].pc \in {"idle", "done"} /\ started' = started + 1
            \/ stageOf(proc'[p].pc) > stageOf(proc[p].pc)]_vars

\* a request went through the fetch, the classification and the rewriting call
\* and was answered with recommendations
C15_Witness ==
  \E p \in Procs :
    /\ proc[p].pc = "done"
    /\ proc[p].trace = <<"loadResources", "fetch", "openaiJSON", "openaiJSON">>
    /\ Len(proc[p].resp) = 1
    /\ proc[p].resp[1].mode \in RecommendationModes


\* C16: every request that is suspended on a network call (the fetch of the
\* sheet, the classifier call, the rewriter call) is eventually answered, also
\* when the call never answers, because a timeout ends the call.
C16_EveryRequestAnswered ==
  \A p \in Procs : (proc[p].pc \in {"fetch", "classify", "convo", "rewrite"}) ~> (proc[p].pc = "done")


\* C17: a request whose loadResources threw (the fetch failed, the sheet parsed
\* to no row, a required column is missing) is answered with the error response,
\* status 500 and no resources, in the step the load fails; a request answered
\* with no_match, or with recommendations, had its catalog loaded.
C17_CatalogFailureIsAnError ==
  \A p \in Procs :
    /\ (proc[p].call.made /\ proc[p].call.outcome = "threw") =>
         /\ proc[p].pc = "done"
         /\ proc[p].trace = <<"loadResources", "fetch">>
         /\ proc[p].resp = <<[status |-> 500, mode |-> "error", resources |-> <<>>,
                              detail |-> proc[p].resp[1].detail, paragraphs |-> <<>>]>>
         /\ rev # "p001" =>
              proc[p].resp[1].detail \in
                {"sheet_fetch_failed", "sheet_empty", "TypeError"}
                  \cup { "missing_column:" \o required[k] : k \in 1..Len(required) }
    /\ (proc[p].pc = "done" /\ proc[p].resp[1].mode \in {"no_match", "empty"} \cup RecommendationModes) =>
         /\ proc[p].call.made
         /\ proc[p].call.outcome = "returned"

\* the sheet of a request to part_003 lacked the url column: the request was
\* answered with status 500 and the name of the column
C17_Witness ==
  \E p \in Procs :
    /\ rev = "p003"
    /\ proc[p].pc = "done"
    /\ proc[p].call.outcome = "threw"
    /\ proc[p].resp[1].status = 500
    /\ proc[p].resp[1].detail = "missing_column:url"


\* a table was written as text, without a line ending after its last row, and
\* parsed
roundTripped == sample.kind = "table" /\ sample.ending = "" /\ result.done

hasChar(s, chars) == \E i \in 1..Len(s) : Ch(s, i) \in chars

\* C18 as stated: a table none of whose strings holds a quote, joined with
\* commas and newlines, is parsed back to the same table.
C18_RoundTripAsStated ==
  (roundTripped /\ \A r \in 1..Len(sample.table) : \A f \in 1..Len(sample.table[r]) :
                      ~hasChar(sample.table[r][f], {Quote}))
    => result.rows = sample.table

\* C18: a table none of whose strings holds a quote, a comma, a carriage return
\* or a newline, and each of whose rows has a non-empty field, joined with
\* commas and newlines, is parsed back to the same table.
C18_RoundTrip ==
  (roundTripped /\ \A r \in 1..Len(sample.table) :
                      /\ \A f \in 1..Len(sample.table[r]) :
                           ~hasChar(sample.table[r][f], {Quote, ",", "\r", "\n"})
                      /\ \E f \in 1..Len(sample.table[r]) : sample.table[r][f] # "")
    => result.rows = sample.table

\* a table of two rows with empty fields at the end of one and at the start of
\* the other came back as it was
C18_Witness ==
  /\ roundTripped
  /\ sample.table = << <<"a", "b c", "">>, <<"", "b">> >>
  /\ result.rows = sample.table


\* C19: a field that holds a comma, a newline and a quote, written enclosed in
\* quotes with each inner quote doubled, is parsed back to the same string as
\* one field, and the fields and rows around it come back as they were.
C19_QuotedFieldRestored ==
  (sample.kind = "quoted" /\ result.done) => result.rows = sample.table

\* the field "a\r\n\"\",b" stood between two fields of the middle row of three
\* and all three rows came back whole
C19_Witness ==
  /\ sample.kind = "quoted"
  /\ result.done
  /\ Len(result.rows) = 3
  /\ result.rows[2] = <<"p", "a\r\n\"\",b", "q">>
  /\ result.rows[1] = <<"h1", "h2">>
  /\ result.rows[3] = <<"t">>


\* the rows of the table are the lines of the text: no field holds a separator
\* or a quote
plainFields(table) ==
  \A r \in 1..Len(table) : \A f \in 1..Len(table[r]) :
    ~hasChar(table[r][f], {Quote, ",", "\r", "\n"})

\* C20: the output of parseCSV holds no row all of whose fields are empty,
\* whatever the text ends in and however many newlines follow each other, and
\* it holds every row of the text that has a non-empty field, in order and with
\* all its fields.
C20_DropsExactlyEmptyRows ==
  (sample.kind = "table" /\ result.done) =>
    /\ \A k \in 1..Len(result.rows) : \E f \in 1..Len(result.rows[k]) : result.rows[k][f] # ""
    /\ plainFields(sample.table) =>
         result.rows = SelectSeq(sample.table,
                                 LAMBDA row : \E f \in 1..Len(row) : row[f] # "")

\* a text of an empty line, a line "a," and a line ending was parsed to the one
\* row of the second line, its empty field included
C20_Witness ==
  /\ sample.kind = "table"
  /\ result.done
  /\ sample.text = "\na,\r\n"
  /\ result.rows = << <<"a", "">> >>


\* the reference of normalize: lowercase; every character that is not a letter,
\* a digit or whitespace becomes a space; every run of whitespace becomes one
\* space; the ends are trimmed
normalizeReference(text) ==
  LET lower == toLowerCase(text)
      kept == CharsOf(LowerAlpha) \cup CharsOf(Digits) \cup SpaceChars
      spaced == concatRange([i \in 1..Len(lower) |->
                               IF Ch(lower, i) \in kept THEN Ch(lower, i) ELSE " "],
                            1, Len(lower))
      single == concatRange([i \in 1..Len(spaced) |->
                               IF Ch(spaced, i) \notin SpaceChars THEN Ch(spaced, i)
                               ELSE IF i > 1 /\ Ch(spaced, i - 1) \in SpaceChars THEN ""
                               ELSE " "],
                            1, Len(spaced))
  IN trim(single)

\* C21: normalize(text) is the reference (lowercase, characters other than
\* letters, digits and whitespace replaced by a space, whitespace runs collapsed,
\* ends trimmed), so its result holds only lowercase letters, digits and single
\* spaces.
C21_NormalizeIsReference ==
  (sample.kind = "text" /\ result.done) =>
    /\ result.text = normalizeReference(sample.text)
    /\ \A i \in 1..Len(result.text) :
         /\ Ch(result.text, i) \in CharsOf(LowerAlpha) \cup CharsOf(Digits) \cup {" "}
         /\ (Ch(result.text, i) = " " /\ i > 1) => Ch(result.text, i - 1) # " "


\* the request was handed to a stage of the pipeline: it is suspended in one, or
\* it was answered by one (the safety gate, the loader's failure, the selector)
reachedAStage(st) ==
  \/ st.pc \in {"fetch", "classify", "convo", "rewrite"}
  \/ st.pc = "done" /\ (st.call.made \/ st.resp[1].status = 200)

answered200_nav1(st) ==
  rev = "nav1" /\ st.pc = "done" /\ st.resp[1].status = 200

linksIn(text) ==
  LET low == toLowerCase(text)
      starts == { j \in 1..Len(low) :
                    \/ j + 6 <= Len(low) /\ SubSeq(low, j, j + 6) = "http://"
                    \/ j + 7 <= Len(low) /\ SubSeq(low, j, j + 7) = "https://" }
      endOf(j) == CHOOSE e \in j..Len(text) :
                    /\ \A k \in j..e : Ch(text, k) \notin SpaceChars
                    /\ (e = Len(text) \/ Ch(text, e + 1) \in SpaceChars)
  IN { SubSeq(text, j, endOf(j)) : j \in starts }

\* the links of a response: the urls of its resources and the links in its
\* paragraphs
linksOfResponse(resp) ==
  { resp.resources[k].url : k \in 1..Len(resp.resources) }
    \cup UNION { linksIn(resp.paragraphs[k]) : k \in 1..Len(resp.paragraphs) }

\* the url fields of the records the request's loadResources returned
sheetUrls(st) ==
  IF st.call.made /\ st.call.outcome = "returned"
    THEN { st.call.ret[k].url : k \in 1..Len(st.call.ret) }
    ELSE {}

\* C24 as stated: in the first navigate.js revision every link of every
\* response, in the resources list and in the paragraphs, is the url of a record
\* of the loaded sheet.
C24_LinksFromSheetAsStated ==
  \A p \in Procs :
    (rev = "nav1" /\ proc[p].pc = "done") =>
      linksOfResponse(proc[p].resp[1]) \subseteq sheetUrls(proc[p])

\* what remains of C24 without the safety response: in the first navigate.js
\* revision every link of every response other than the fixed safety response, in the resources list and in the paragraphs,
\* is the url of a record of the loaded sheet; the safety response carries the
\* one fixed link of the crisis line.
C24_LinksFromSheet ==
  \A p \in Procs :
    (rev = "nav1" /\ proc[p].pc = "done") =>
      IF proc[p].resp[1].mode = "safety"
        THEN linksOfResponse(proc[p].resp[1]) = {"https://didihirsch.org/teenline/"}
        ELSE linksOfResponse(proc[p].resp[1]) \subseteq sheetUrls(proc[p])

\* the writer's cards carried three links of its own; the response has three
\* paragraphs and three resources and its links are the three urls of the
\* selected records
C24_Witness ==
  \E p \in Procs :
    /\ rev = "nav1"
    /\ proc[p].pc = "done"
    /\ proc[p].resp[1].mode = "recommendations"
    /\ Len(proc[p].resp[1].paragraphs) = 3
    /\ includes(proc[p].resp[1].paragraphs[1], "Description: See now\n")
    /\ Cardinality(linksOfResponse(proc[p].resp[1])) = 3
    /\ linksOfResponse(proc[p].resp[1]) \subseteq sheetUrls(proc[p])


\* t.includes(...) of looksGirlsOnly, on the fields it reads
girlsOnly(r) ==
  \E phrase \in {"girls only", "for girls", "girls in", "young girls", "girl up",
                 "girls on the run"} :
    includes(toLowerCase(r.title \o " " \o r.description \o " " \o r.best_for), phrase)

\* C25: gender gating never hard-excludes.  In the card handler of
\* api/navigate.js, when the request carries no sign of a girl, a girls-only
\* record whose match is the strongest of the ranked list (it is ranked first)
\* still appears among the selected cards, next to the other records.
C25_NeverHardExcluded ==
  (sample.kind = "ranked" /\ result.done /\ ~sample.girlAllowed)
    => (girlsOnly(sample.ranked[1].r)
          => \E k \in 1..Len(result.items) : result.items[k] = sample.ranked[1].r)


\* the tokens of a list, each once
tokenSet(tokens) == { tokens[k] : k \in 1..Len(tokens) }

\* how many tokens of the haystack, counted with their repeats, are in a set
occurrencesIn(haystack, tokens) ==
  Cardinality({ k \in 1..Len(haystack) : haystack[k] \in tokens })

\* the score as the claim computes it
scoreReference(r, queryTokens, tagTokens, urgency) ==
  3 * occurrencesIn(haystackOf("p001", r), tokenSet(queryTokens))
  + 5 * occurrencesIn(haystackOf("p001", r), tokenSet(tagTokens))
  + (IF \/ includes(toLowerCase(r.fatherlessness_connection), "father")
        \/ includes(toLowerCase(r.fatherlessness_connection), "dad")
       THEN 6 ELSE 0)
  + (IF urgency = "high" /\ isCrisisResource("p001", r) THEN 10 ELSE 0)

\* a list with its repeats removed, in the order of first appearance
withoutRepeats(tokens) ==
  LET first == { k \in 1..Len(tokens) : \A j \in 1..(k - 1) : tokens[j] # tokens[k] }
      rank(k) == Cardinality({ j \in first : j <= k })
  IN [n \in 1..Cardinality(first) |-> tokens[CHOOSE k \in first : rank(k) = n]]

\* C26: scoreResource of part_001 is 3 per haystack token occurrence that is a
\* request token, plus 5 per occurrence that is a tag token, plus 6 when
\* fatherlessness_connection contains "father" or "dad", plus 10 when urgency
\* is "high" and the record is a crisis resource; at any other urgency the
\* crisis bonus adds nothing, repeats among the request tokens or the tag tokens
\* change nothing, and the score is never negative.
C26_ScoreIsWeightedOverlap ==
  (sample.kind = "score" /\ result.done) =>
    /\ result.s = scoreReference(sample.r, sample.queryTokens, sample.tagTokens, sample.urgency)
    /\ sample.urgency # "high"
         => result.s = scoreReference(sample.r, sample.queryTokens, sample.tagTokens, "none")
    /\ result.s = scoreResource("p001", sample.r, withoutRepeats(sample.queryTokens),
                                withoutRepeats(sample.tagTokens), sample.urgency)
    /\ result.s >= 0

\* the crisis line scored at high urgency for a request that says "crisis"
\* twice: two occurrences in the haystack, 3 and 5 each, and the bonus of 10
C26_Witness ==
  /\ sample.kind = "score"
  /\ result.done
  /\ sample.r.title = "Crisis Line"
  /\ sample.queryTokens = <<"crisis", "crisis">>
  /\ sample.tagTokens = <<"crisis">>
  /\ sample.urgency = "high"
  /\ occurrencesIn(haystackOf("p001", sample.r), {"crisis"}) = 2
  /\ result.s = 26


\* C27: in part_006, at an urgency other than "high", whenever some record of
\* the catalog scores at or above the threshold the request is not answered
\* with no_match: the removal of the crisis records does not by itself empty
\* the selection.
C27_CrisisFilterNeverEmpties ==
  \A p \in Procs :
    (/\ rev = "p006"
     /\ proc[p].pc = "done"
     /\ proc[p].sel.made
     /\ proc[p].sel.urgency # "high"
     /\ \E k \in 1..Len(proc[p].sel.rankedAll) : proc[p].sel.rankedAll[k].s >= threshold)
      => proc[p].resp[1].mode # "no_match"


\* the haystack of a record shares a token with the request tokens or the tag
\* tokens of a selection
overlaps(rv, sel, r) ==
  occurrencesIn(haystackOf(rv, r), tokenSet(sel.queryTokens) \cup tokenSet(sel.tagTokens)) > 0

\* C28: in part_001 the mission-relevance boost admits no record by itself: a
\* record whose haystack shares no token with the request tokens or the tag
\* tokens, and that has no crisis bonus, is not in the ranked list, and when no
\* record of the catalog overlaps the request (and none has the crisis bonus)
\* the request is answered with no_match.
C28_BoostOnlyBreaksTies ==
  \A p \in Procs :
    (rev = "p001" /\ proc[p].sel.made)
      => /\ \A j \in 1..Len(proc[p].sel.rankedAll) :
              \/ overlaps(rev, proc[p].sel, proc[p].sel.rankedAll[j].r)
              \/ /\ proc[p].sel.urgency = "high"
                 /\ isCrisisResource(rev, proc[p].sel.rankedAll[j].r)
         /\ (/\ proc[p].pc = "done"
             /\ proc[p].sel.urgency # "high"
             /\ \A k \in 1..Len(proc[p].sel.catalog) :
                  ~overlaps(rev, proc[p].sel, proc[p].sel.catalog[k]))
              => proc[p].resp[1].mode = "no_match"


\* C29: across overlapping loadResources calls CACHE.at never decreases: a
\* cached snapshot is never replaced by the snapshot of a load that started
\* (took its `now`) earlier than the load that produced it.
C29_CacheNeverGoesBack == [][CACHE'.at >= CACHE.at]_vars


\* C30: in part_003 the no-match check precedes the clarification check: a
\* request none of whose records scores positively is answered with no_match
\* even when the classifier set needs_clarification, and the classifier's
\* question is the answer only when the ranked list is not empty, the classifier
\* set needs_clarification and gave a non-empty question, with no resources and
\* before any call of the rewriter.
C30_NoMatchBeforeClarification ==
  \A p \in Procs :
    (rev = "p003" /\ proc[p].pc = "done" /\ proc[p].sel.made)
      => /\ proc[p].sel.ranked = <<>> => proc[p].resp[1].mode = "no_match"
         /\ proc[p].resp[1].mode = "conversation"
              <=> /\ proc[p].sel.ranked # <<>>
                  /\ proc[p].sel.needs_clarification
                  /\ proc[p].sel.clarifying_question # ""
         /\ proc[p].resp[1].mode = "conversation"
              => /\ proc[p].resp[1].resources = <<>>
                 /\ timesIn(proc[p].trace, "openaiJSON") = 1

\* the classifier asked for a clarification and gave its question, no record
\* scored positively, and the answer is no_match
C30_Witness ==
  \E p \in Procs :
    /\ rev = "p003"
    /\ proc[p].pc = "done"
    /\ proc[p].sel.made
    /\ proc[p].sel.catalog # <<>>
    /\ proc[p].sel.needs_clarification
    /\ proc[p].sel.clarifying_question # ""
    /\ proc[p].sel.ranked = <<>>
    /\ proc[p].resp[1].mode = "no_match"

====
